---- MODULE Spec2Model ----
(***************************************************************************)
(* Plexist: the track-matching and caching core.                           *)
(*                                                                         *)
(*   - the MBID resolver and its persistent ISRC->MBID cache               *)
(*     (plexist/modules/musicbrainz.py)                                    *)
(*   - the Plex track cache, the staged match engine, the rate limiter and *)
(*     the bounded fan-out around them (plexist/modules/plex.py)           *)
(*                                                                         *)
(* Text is modelled as a sequence of characters (one-character strings,    *)
(* with the URI scheme prefix "mbid://" kept as one token), so that        *)
(* normalisation, case folding and similarity are computed, not assumed.   *)
(***************************************************************************)
EXTENDS Integers, Sequences, FiniteSets, TLC

VARIABLES
    now,              \* wall clock, in days (datetime.now)
    isrc_mbid_cache,  \* table isrc_mbid_cache: set of rows
    res,              \* per task: the ISRC resolution it is running
    plex_tracks_cache,            \* raw key -> track, in insertion order
    plex_tracks_cache_index,      \* lower-cased raw key -> track
    plex_lookup_full,             \* normalized full key -> track
    plex_lookup_partial,          \* normalized title|artist -> tracks
    plex_partial_duration_index,  \* partial key -> duration bucket -> tracks
    plex_artist_index,            \* normalized artist -> tracks
    plex_duration_index,          \* duration bucket -> tracks
    plex_mbid_index,              \* mbid -> {plex_id, track_key, track}
    cache_lock,                   \* asyncio.Lock: its holder, or Free
    musicbrainz_enabled,
    extended_cache_enabled,
    plex_level,       \* plex_rate_limiter: the level of its bucket
    last_call,        \* the latest call made to the Plex server
    mt,               \* per task: the _match_single_track it is running
    stopwatch,        \* acquisitions of one coroutine in a row, and their timing
    max_concurrent_workers,
    semaphore,        \* free permits of the batch's asyncio.Semaphore
    pl,               \* the update_or_create_plex_playlist that is running
    plex_playlist,    \* the playlist on the Plex server: its items, or NoPlaylist
    cache_building,   \* the flag "a full scan is in progress"
    bt,               \* per trigger: the fetch_and_cache_tracks it is running
    plex_cache,       \* table plex_cache: the raw keys of its rows
    cc,               \* the clear_cache that is running
    liked_tracks,     \* table liked_tracks: the plex_ids recorded for the source
    user_rating,      \* the rating of each item on the Plex server
    lk,               \* the sync_liked_tracks_to_plex that is running
    bq,               \* the batch resolution of ISRCs that is running
    deleted_count,    \* what the latest cleanup_expired_cache returned
    mb_limiter,       \* mb_rate_limiter, the clock and the requests sent
    mbq,              \* per task: the query of the MusicBrainz API it is in
    scored_mbids,     \* a set of ScoredMBID, and what was added to it
    registry,         \* the ServiceRegistry and the sync_all it is running
    plex_mbid_table,  \* table plex_mbid_index
    boot,             \* the load_cache_from_db that is running
    ic,               \* the initialize_cache that is running, and os.environ
    inflight,         \* per batch: its semaphore and its match operations
    sk,               \* per task: the lock or slot it waits for or holds
    bk,               \* a bucket width and the two durations stage 4 compares
    liked_elsewhere   \* table liked_tracks: the plex_ids of the other source

varsMB == <<now, isrc_mbid_cache, res, bq>>

cacheVars == <<plex_tracks_cache, plex_tracks_cache_index, plex_lookup_full,
               plex_lookup_partial, plex_partial_duration_index,
               plex_artist_index, plex_duration_index>>

confVars == <<musicbrainz_enabled, extended_cache_enabled>>

syncVars == <<stopwatch, max_concurrent_workers, semaphore, pl, plex_playlist>>

buildVars == <<cache_building, bt, plex_cache, cc>>

likedVars == <<liked_tracks, user_rating, lk>>

jobVars == <<buildVars, likedVars>>

deepVars == <<ic, inflight, sk, bk, liked_elsewhere>>

aux1Vars == <<deleted_count, mb_limiter, mbq, scored_mbids, registry, plex_mbid_table,
              boot>>

auxVars == <<deleted_count, mb_limiter, mbq, scored_mbids, registry, plex_mbid_table,
             boot, deepVars>>

plexVars == <<cacheVars, plex_mbid_index, cache_lock, confVars, auxVars, jobVars, plex_level,
              last_call, mt, syncVars>>

\* the Plex side without auxVars
plexSide == <<cacheVars, plex_mbid_index, cache_lock, confVars, jobVars, plex_level,
              last_call, mt, syncVars>>

vars == <<varsMB, plexVars>>

-----------------------------------------------------------------------------
(* Bounds of the model *)

\* acquisitions in a row that are timed, and the longest time measured, in
\* units of TIME_PERIOD / MAX_RATE
MaxAcquisitions == 7
MaxElapsed == 8

\* the page size of the scan in the model, in place of PLEX_BATCH_SIZE, and
\* the requests of one page that are followed
PageLimit == 2
MaxFetches == 7

\* the tenths of a second the clock of the MusicBrainz limiter runs for
MaxMbClock == 24

\* the elements added to one set of ScoredMBID
MaxAdds == 3

\* the days at which the clock is read: with the TTLs of 90 and 7 days their
\* differences hit both sides of both expiry tests (7 and 8, 90 and 91 days)
ClockDays == {0, 7, 90, 98}

\* the tasks of the event loop that match and resolve
TaskIds == <<"t1", "t2", "t3">>
Tasks == {TaskIds[i] : i \in 1..Len(TaskIds)}

\* the tasks that resolve ISRCs on their own
Procs == {"t1", "t2"}

-----------------------------------------------------------------------------
(* Text *)

CasePairs ==
    { <<"a", "A">>, <<"b", "B">>, <<"c", "C">>, <<"d", "D">>, <<"e", "E">>, <<"g", "G">>,
      <<"h", "H">>, <<"m", "M">>, <<"q", "Q">>, <<"s", "S">>, <<"t", "T">>,
      <<"u", "U">>, <<"w", "W">>, <<"x", "X">>, <<"y", "Y">>, <<"z", "Z">>,
      <<"é", "É">> }

\* str.upper, one character
upper(c) == IF \E p \in CasePairs : p[1] = c
            THEN (CHOOSE p \in CasePairs : p[1] = c)[2] ELSE c

\* str.lower, one character
lower(c) == IF \E p \in CasePairs : p[2] = c
            THEN (CHOOSE p \in CasePairs : p[2] = c)[1] ELSE c

MapSeq(s, Op(_)) == [i \in 1..Len(s) |-> Op(s[i])]

NotHyphen(c) == c # "-"

\* isrc.upper().replace("-", "")
NormalizeIsrc(isrc) == SelectSeq(MapSeq(isrc, upper), NotHyphen)

RECURSIVE StripLeft(_, _)
StripLeft(s, chars) ==
    IF s # <<>> /\ Head(s) \in chars THEN StripLeft(Tail(s), chars) ELSE s

RECURSIVE StripRight(_, _)
StripRight(s, chars) ==
    IF s # <<>> /\ s[Len(s)] \in chars
    THEN StripRight(SubSeq(s, 1, Len(s) - 1), chars) ELSE s

\* str.strip(chars)
Strip(s, chars) == StripRight(StripLeft(s, chars), chars)

\* the value None of an Optional[str]
NoneStr == <<"<None>">>

\* the scheme prefix is dropped from the stripped, lower-cased text
Unschemed(stripped) == IF stripped # <<>> /\ stripped[1] = "mbid://"
                       THEN Tail(stripped) ELSE stripped

OrNone(normalized) == IF normalized = <<>> THEN NoneStr ELSE normalized

_normalize_mbid(mbid) ==
    IF mbid = NoneStr \/ mbid = <<>> THEN NoneStr
    ELSE OrNone(Strip(Unschemed(MapSeq(Strip(mbid, {" "}), lower)), {"{", "}", " "}))

_normalize_mbids(mbids) ==
    { _normalize_mbid(m) : m \in {x \in mbids : _normalize_mbid(x) # NoneStr} }

\* characters that NFKD decomposes into a base letter and a combining mark
Diacritics == { <<"é", "e">>, <<"É", "E">> }

\* unicodedata.normalize("NFKD", .) followed by dropping the combining marks
StripDiacritic(c) == IF \E p \in Diacritics : p[1] = c
                     THEN (CHOOSE p \in Diacritics : p[1] = c)[2] ELSE c

\* \s of the regular expressions
Whitespace == {" "}

\* the characters [^\w\s] matches
Punctuation == {"!", "(", ")", "-", "{", "}", "|"}

PunctToSpace(c) == IF c \in Punctuation THEN " " ELSE c

\* re.sub(r"\s+", " ", .): runs of whitespace become one space
RECURSIVE CollapseSpaces(_)
CollapseSpaces(s) ==
    IF Len(s) < 2 THEN IF s # <<>> /\ s[1] \in Whitespace THEN <<" ">> ELSE s
    ELSE IF s[1] \in Whitespace /\ s[2] \in Whitespace THEN CollapseSpaces(Tail(s))
    ELSE <<s[1]>> \o CollapseSpaces(Tail(s))

\* the value None / "" of a text field is the empty sequence
_normalize_text(value) ==
    IF value = <<>> THEN <<>>
    ELSE LET decomposed == MapSeq(value, StripDiacritic)
             folded     == MapSeq(decomposed, lower)
             spaced     == MapSeq(folded, PunctToSpace)
         IN  Strip(CollapseSpaces(spaced), Whitespace)

\* f"{a}|{b}"
Bar(a, b) == a \o <<"|">> \o b

LookupKeys(title_norm, artist_norm, album_norm) ==
    [title_norm |-> title_norm, artist_norm |-> artist_norm,
     album_norm |-> album_norm,
     lookup_key_full |-> Bar(Bar(title_norm, artist_norm), album_norm),
     lookup_key_partial |-> Bar(title_norm, artist_norm)]

_build_lookup_keys(title, artist, album) ==
    LookupKeys(_normalize_text(title), _normalize_text(artist), _normalize_text(album))

Min(a, b) == IF a < b THEN a ELSE b

\* the common blocks <<start in a, start in b, size>> of two strings
CommonBlocks(a, b) ==
    {blk \in (1..Len(a)) \X (1..Len(b)) \X (1..Min(Len(a), Len(b))) :
        /\ blk[1] + blk[3] - 1 <= Len(a)
        /\ blk[2] + blk[3] - 1 <= Len(b)
        /\ SubSeq(a, blk[1], blk[1] + blk[3] - 1)
             = SubSeq(b, blk[2], blk[2] + blk[3] - 1)}

\* the longest block, the earliest in a and then the earliest in b among the
\* longest
Longest(blocks) ==
    IF blocks = {} THEN <<0, 0, 0>>
    ELSE CHOOSE x \in blocks :
           \A y \in blocks :
              \/ x[3] > y[3]
              \/ x[3] = y[3] /\ x[1] < y[1]
              \/ x[3] = y[3] /\ x[1] = y[1] /\ x[2] <= y[2]

\* difflib.SequenceMatcher.find_longest_match over whole strings
LongestMatch(a, b) == Longest(CommonBlocks(a, b))

\* sum of the sizes of SequenceMatcher.get_matching_blocks: the longest block,
\* then the same to its left and to its right
RECURSIVE MatchingSize(_, _)
MatchingAround(a, b, blk) ==
    IF blk[3] = 0 THEN 0
    ELSE blk[3]
         + MatchingSize(SubSeq(a, 1, blk[1] - 1), SubSeq(b, 1, blk[2] - 1))
         + MatchingSize(SubSeq(a, blk[1] + blk[3], Len(a)),
                        SubSeq(b, blk[2] + blk[3], Len(b)))

MatchingSize(a, b) ==
    IF a = <<>> \/ b = <<>> THEN 0 ELSE MatchingAround(a, b, LongestMatch(a, b))

\* SequenceMatcher.ratio() as the fraction <<numerator, denominator>> =
\* 2 * matches / total length (1.0 for two empty strings)
Ratio(la, lb) ==
    IF Len(la) + Len(lb) = 0 THEN <<1, 1>>
    ELSE <<2 * MatchingSize(la, lb), Len(la) + Len(lb)>>

\* SequenceMatcher(None, a.lower(), b.lower()).ratio()
similarity(a, b) == Ratio(MapSeq(a, lower), MapSeq(b, lower))

\* ratio >= percent / 100
RatioAtLeast(r, percent) == 100 * r[1] >= percent * r[2]

\* ratio r strictly above ratio q
RatioAbove(r, q) == r[1] * q[2] > q[1] * r[2]

-----------------------------------------------------------------------------
(* The Plex library and the canonical Track records of the providers *)

\* the value None of an Optional[int]
NoneInt == -1

\* The music library on the Plex server, in the order library.search returns
\* it. ratingKey is the durable identity; guids are the embedded identifiers.
\* 101 and 102 are two tracks of one release and both carry its release MBID;
\* only 103 exposes an ISRC.
PlexLibrary ==
    << [ratingKey |-> 101, title |-> <<"Y", "e", "s">>, artist |-> <<"A", "b">>,
        album |-> <<"H", "!">>, duration |-> 125000, year |-> 1965,
        genres |-> << <<"p", "o", "p">> >>,
        guids |-> << <<"mbid://", "m", "1">>, <<"mbid://", "{", "M", "2", "}">> >>],
       [ratingKey |-> 102, title |-> <<"Y", "e", "s", "t">>, artist |-> <<"A", "b">>,
        album |-> <<"H", "!">>, duration |-> 131000, year |-> 1965,
        genres |-> <<>>,
        guids |-> << <<"mbid://", "M", "2">> >>],
       [ratingKey |-> 103, title |-> <<"Y", "e", "s">>, artist |-> <<"C", "d">>,
        album |-> <<"H", "é">>, duration |-> 135000, year |-> 0,
        genres |-> <<>>,
        guids |-> << <<"isrc://", "G", "B", "2">> >>] >>

RatingKeys == {PlexLibrary[i].ratingKey : i \in 1..Len(PlexLibrary)}

\* the Plex item with a rating key
Item(rk) == PlexLibrary[CHOOSE i \in 1..Len(PlexLibrary) : PlexLibrary[i].ratingKey = rk]

\* a matched item that is None
NoItem == 0

\* helperClasses.Track, as the provider adapters build it
NoIsrc == <<>>
InputTracks ==
    { \* carries the ISRC of 103, reads like 101
      [title |-> <<"Y", "e", "s">>, artist |-> <<"A", "b">>, album |-> <<"H", "!">>,
       year |-> <<>>, genre |-> <<>>, isrc |-> <<"G", "B", "2">>,
       duration_ms |-> NoneInt],
      \* an ISRC that no Plex item exposes
      [title |-> <<"Q", "q">>, artist |-> <<"Z", "z">>, album |-> <<"W", "w">>,
       year |-> <<>>, genre |-> <<>>, isrc |-> <<"U", "S", "1">>,
       duration_ms |-> NoneInt],
      \* 101 in another case
      [title |-> <<"y", "e", "s">>, artist |-> <<"a", "b">>, album |-> <<"h", "!">>,
       year |-> <<>>, genre |-> <<>>, isrc |-> NoIsrc, duration_ms |-> NoneInt],
      \* title and artist of 101 on another album, two seconds longer
      [title |-> <<"Y", "e", "s">>, artist |-> <<"A", "b">>, album |-> <<"Z", "z">>,
       year |-> <<>>, genre |-> <<>>, isrc |-> NoIsrc, duration_ms |-> 127000],
      \* the same with an accent on the title: the partial key of 101
      [title |-> <<"Y", "é", "s">>, artist |-> <<"A", "b">>, album |-> <<"Z", "z">>,
       year |-> <<>>, genre |-> <<>>, isrc |-> NoIsrc, duration_ms |-> 127000],
      \* close to the title of 102
      [title |-> <<"Y", "e", "s", "t", "e">>, artist |-> <<"A", "b">>,
       album |-> <<"Z", "z">>, year |-> <<"1", "9", "6", "5">>,
       genre |-> <<"p", "o", "p">>, isrc |-> NoIsrc, duration_ms |-> NoneInt],
      \* title and album of 101 under a misspelt artist
      [title |-> <<"Y", "e", "s">>, artist |-> <<"X", "b">>, album |-> <<"H", "!">>,
       year |-> <<>>, genre |-> <<>>, isrc |-> NoIsrc, duration_ms |-> NoneInt],
      \* a two-word title that resembles nothing
      [title |-> <<"Q", " ", "q">>, artist |-> <<"Z", "z">>, album |-> <<"W", "w">>,
       year |-> <<>>, genre |-> <<>>, isrc |-> NoIsrc, duration_ms |-> NoneInt] }

\* int(track.year) of a year string of digits
Digits == <<"0", "1", "2", "3", "4", "5", "6", "7", "8", "9">>
DigitValue(c) == (CHOOSE i \in 1..10 : Digits[i] = c) - 1
RECURSIVE ParseInt(_)
ParseInt(s) == IF s = <<>> THEN 0
               ELSE 10 * ParseInt(SubSeq(s, 1, Len(s) - 1)) + DigitValue(s[Len(s)])

Contains(s, c) == \E i \in 1..Len(s) : s[i] = c
IndexOf(s, c) == IF Contains(s, c) THEN CHOOSE i \in 1..Len(s) :
                                          s[i] = c /\ \A j \in 1..(i - 1) : s[j] # c
                 ELSE Len(s) + 1
\* s.split(c)[0] and what follows the first c
Before(s, c) == SubSeq(s, 1, IndexOf(s, c) - 1)
After(s, c) == SubSeq(s, IndexOf(s, c) + 1, Len(s))
\* title.split("(")[1].split(")")[0]
VersionOf(title) == Before(Before(After(title, "("), "("), ")")

\* every text the matcher compares: titles (and their version parts), artists,
\* albums and genre tags of the library and of the input tracks
Texts ==
    UNION { {PlexLibrary[i].title, VersionOf(PlexLibrary[i].title),
             PlexLibrary[i].artist, PlexLibrary[i].album}
            \cup {PlexLibrary[i].genres[j] : j \in 1..Len(PlexLibrary[i].genres)}
              : i \in 1..Len(PlexLibrary) }
    \cup UNION { {t.title, VersionOf(t.title), t.artist, t.album, t.genre}
                   : t \in InputTracks }

\* similarity, computed once for every pair of them (@@ makes the table a
\* stored function rather than a rule evaluated at each application)
SimilarityTable ==
    [pair \in Texts \X Texts |-> similarity(pair[1], pair[2])] @@ <<>>

sim(a, b) == SimilarityTable[<<a, b>>]

-----------------------------------------------------------------------------
(* The Plex track cache and its indexes *)

PLEX_BATCH_SIZE == 500
MAX_SEARCH_CANDIDATES == 500

\* dict: a function on the keys present
EmptyDict == <<>>
Put(d, k, v) == [x \in (DOMAIN d) \cup {k} |-> IF x = k THEN v ELSE d[x]]
Has(d, k) == k \in DOMAIN d
\* dict.setdefault(k, []).append(v)
Append2(d, k, v) == Put(d, k, IF Has(d, k) THEN Append(d[k], v) ELSE <<v>>)

\* the raw map plex_tracks_cache keeps its keys in insertion order:
\* a sequence of [key, track]; assigning an existing key keeps its place
CachePut(cache, key, track) ==
    IF \E i \in 1..Len(cache) : cache[i].key = key
    THEN [i \in 1..Len(cache) |->
            IF cache[i].key = key THEN [key |-> key, track |-> track] ELSE cache[i]]
    ELSE Append(cache, [key |-> key, track |-> track])

\* plex_tracks_cache.values()
CacheValues(cache) == [i \in 1..Len(cache) |-> cache[i].track]

\* f"{track.title}|{track.artist().title}|{track.album().title}"
RawKey(title, artist, album) == Bar(Bar(title, artist), album)

LowerKey(title, artist, album) ==
    RawKey(MapSeq(title, lower), MapSeq(artist, lower), MapSeq(album, lower))

\* _rebuild_cache_index over the values of the raw map
RECURSIVE CacheIndexOf(_)
CacheIndexOf(tracks) ==
    IF tracks = <<>> THEN EmptyDict
    ELSE LET n == Len(tracks)
             t == Item(tracks[n])
         IN  Put(CacheIndexOf(SubSeq(tracks, 1, n - 1)),
                 LowerKey(t.title, t.artist, t.album), tracks[n])

duration_bucket_seconds == 5
DURATION_TOLERANCE_MS == 5000

_get_duration_bucket(duration_ms) ==
    IF duration_ms = NoneInt THEN NoneInt
    ELSE IF duration_bucket_seconds <= 0 THEN NoneInt
    ELSE duration_ms \div (duration_bucket_seconds * 1000)

KeysOf(rk) == _build_lookup_keys(Item(rk).title, Item(rk).artist, Item(rk).album)

\* _rebuild_extended_indexes, index by index
RECURSIVE LookupFullOf(_)
LookupFullOf(tracks) ==
    IF tracks = <<>> THEN EmptyDict
    ELSE LET n == Len(tracks)
         IN  Put(LookupFullOf(SubSeq(tracks, 1, n - 1)),
                 KeysOf(tracks[n]).lookup_key_full, tracks[n])

RECURSIVE LookupPartialOf(_)
LookupPartialOf(tracks) ==
    IF tracks = <<>> THEN EmptyDict
    ELSE LET n == Len(tracks)
         IN  Append2(LookupPartialOf(SubSeq(tracks, 1, n - 1)),
                     KeysOf(tracks[n]).lookup_key_partial, tracks[n])

RECURSIVE ArtistIndexOf(_)
ArtistIndexOf(tracks) ==
    IF tracks = <<>> THEN EmptyDict
    ELSE LET n == Len(tracks)
             rest == ArtistIndexOf(SubSeq(tracks, 1, n - 1))
         IN  IF KeysOf(tracks[n]).artist_norm # <<>>
             THEN Append2(rest, KeysOf(tracks[n]).artist_norm, tracks[n])
             ELSE rest

RECURSIVE DurationIndexOf(_)
DurationIndexOf(tracks) ==
    IF tracks = <<>> THEN EmptyDict
    ELSE LET n == Len(tracks)
             rest == DurationIndexOf(SubSeq(tracks, 1, n - 1))
             bucket == _get_duration_bucket(Item(tracks[n]).duration)
         IN  IF bucket # NoneInt THEN Append2(rest, bucket, tracks[n]) ELSE rest

RECURSIVE PartialDurationIndexOf(_)
PartialDurationIndexOf(tracks) ==
    IF tracks = <<>> THEN EmptyDict
    ELSE LET n == Len(tracks)
             rest == PartialDurationIndexOf(SubSeq(tracks, 1, n - 1))
             bucket == _get_duration_bucket(Item(tracks[n]).duration)
             partial == KeysOf(tracks[n]).lookup_key_partial
         IN  IF bucket # NoneInt
             THEN Put(rest, partial,
                      Append2(IF Has(rest, partial) THEN rest[partial] ELSE EmptyDict,
                              bucket, tracks[n]))
             ELSE rest

IsMbidGuid(guid) == \E i \in 1..Len(guid) : guid[i] = "mbid://"

\* list(dict.fromkeys(mbids)): duplicates dropped, first occurrence kept
RECURSIVE Dedupe(_)
Dedupe(s) ==
    IF s = <<>> THEN <<>>
    ELSE LET n == Len(s)
             init == Dedupe(SubSeq(s, 1, n - 1))
         IN  IF \E i \in 1..Len(init) : init[i] = s[n] THEN init ELSE Append(init, s[n])

ValidMbidGuid(guid) == IsMbidGuid(guid) /\ _normalize_mbid(guid) # NoneStr

_extract_mbids_from_track(rk) ==
    Dedupe(MapSeq(SelectSeq(Item(rk).guids, ValidMbidGuid), _normalize_mbid))

\* the MBID index entries of one scanned track, later tracks overwriting
RECURSIVE IndexMbids(_, _, _)
IndexMbids(index, mbids, entry) ==
    IF mbids = <<>> THEN index
    ELSE IndexMbids(Put(index, Head(mbids), entry), Tail(mbids), entry)

\* the loop of fetch_and_cache_tracks over one page, under cache_lock
RECURSIVE MergeRaw(_, _)
MergeRaw(cache, page) ==
    IF page = <<>> THEN cache
    ELSE LET t == Item(Head(page))
         IN  MergeRaw(CachePut(cache, RawKey(t.title, t.artist, t.album), Head(page)),
                      Tail(page))

RECURSIVE MergeMbids(_, _)
MergeMbids(index, page) ==
    IF page = <<>> THEN index
    ELSE LET t == Item(Head(page))
         IN  MergeMbids(
               IndexMbids(index, _extract_mbids_from_track(Head(page)),
                          [plex_id |-> Head(page),
                           track_key |-> RawKey(t.title, t.artist, t.album),
                           track |-> Head(page)]),
               Tail(page))

\* library.search(libtype="track", container_start=offset, container_size=limit)
LibraryPage(offset, limit) ==
    [i \in 1..Min(limit, IF Len(PlexLibrary) > offset THEN Len(PlexLibrary) - offset ELSE 0)
        |-> PlexLibrary[offset + i].ratingKey]

\* save_plex_mbids_bulk(mbid_entries): INSERT OR REPLACE of the entries the
\* loop over the page has collected, the later of one MBID replacing the earlier
TableMerge(table, page) ==
    LET entries == MergeMbids(EmptyDict, page)
    IN  [m \in (DOMAIN table) \cup (DOMAIN entries) |->
            IF m \in DOMAIN entries
            THEN [plex_id |-> entries[m].plex_id, track_key |-> entries[m].track_key]
            ELSE table[m]]

-----------------------------------------------------------------------------
(* The ISRC -> MBID cache (table isrc_mbid_cache) *)

MUSICBRAINZ_CACHE_TTL_DAYS == 90
MUSICBRAINZ_NEGATIVE_CACHE_TTL_DAYS == 7

\* Optional[Set[str]]: None is CacheMiss, a set s is CacheHit(s)
CacheMiss == [hit |-> FALSE, mbids |-> {}]
CacheHit(s) == [hit |-> TRUE, mbids |-> s]

RowsOf(cache, isrc) == {r \in cache : r.isrc = isrc}

\* cached_time >= now - timedelta(days = ttl)
NotExpired(cached_at, t, ttl) == cached_at >= t - ttl

\* a lookup that forgets the negative rows
get_cached_mbids_at_NoNegative(cache, t, isrc) ==
    LET valid_mbids == {r.mbid : r \in {x \in RowsOf(cache, isrc) : x.is_negative = 0
                          /\ NotExpired(x.cached_at, t, MUSICBRAINZ_CACHE_TTL_DAYS)}}
    IN  IF valid_mbids # {} THEN CacheHit(valid_mbids) ELSE CacheMiss

get_cached_mbids_at(cache, t, isrc) ==
    LET rows == RowsOf(cache, isrc)
        negs == {r \in rows : r.is_negative = 1}
        valid_mbids == {r.mbid : r \in {x \in rows : x.is_negative = 0
                          /\ NotExpired(x.cached_at, t, MUSICBRAINZ_CACHE_TTL_DAYS)}}
    IN  IF rows = {} THEN CacheMiss
        ELSE IF negs # {}
             THEN IF \E r \in negs :
                        NotExpired(r.cached_at, t, MUSICBRAINZ_NEGATIVE_CACHE_TTL_DAYS)
                  THEN CacheHit({})
                  ELSE CacheMiss
        ELSE IF valid_mbids # {} THEN CacheHit(valid_mbids)
        ELSE CacheMiss

get_cached_mbids(isrc) == get_cached_mbids_at(isrc_mbid_cache, now, isrc)

\* INSERT OR REPLACE on the primary key (isrc, mbid)
Upsert(cache, row) ==
    {r \in cache : ~(r.isrc = row.isrc /\ r.mbid = row.mbid)} \cup {row}

save_mbids_to_cache_at(cache, t, isrc, mbids) ==
    LET normalized_mbids == _normalize_mbids(mbids)
    IN  IF normalized_mbids = {}
        THEN Upsert(cache, [isrc |-> isrc, mbid |-> <<>>, is_negative |-> 1,
                            cached_at |-> t])
        ELSE LET kept == {r \in cache : ~(r.isrc = isrc /\ r.is_negative = 1)}
             IN  {r \in kept : ~(r.isrc = isrc /\ r.mbid \in normalized_mbids)}
                 \cup {[isrc |-> isrc, mbid |-> m, is_negative |-> 0,
                        cached_at |-> t] : m \in normalized_mbids}

save_mbids_to_cache(isrc, mbids) ==
    save_mbids_to_cache_at(isrc_mbid_cache, now, isrc, mbids)

\* the rows the expiry sweep deletes
ExpiredRows(cache, t) ==
    {r \in cache :
        \/ r.is_negative = 0 /\ r.cached_at < t - MUSICBRAINZ_CACHE_TTL_DAYS
        \/ r.is_negative = 1 /\ r.cached_at < t - MUSICBRAINZ_NEGATIVE_CACHE_TTL_DAYS}

-----------------------------------------------------------------------------
(* The MusicBrainz web service, as the resolver sees it *)

\* raw identifiers as the service returns them
MB1 == <<"m", "1">>
MB2 == <<"M", "2">>

\* response bodies of a 200: data["recordings"]
Payloads ==
    { <<>>,
      << [id |-> MB1, releases |-> <<>>] >>,
      << [id |-> MB1, releases |-> << [id |-> MB2, tracks |-> <<>>] >>] >>,
      << [id |-> MB2, releases |-> << [id |-> MB2, tracks |-> <<MB2>>] >>] >> }

\* set.add on a set of ScoredMBID: equality and hash are by mbid alone, so an
\* element equal to one already present is not inserted
AddScored(scored, raw, type) ==
    LET normalized == _normalize_mbid(raw)
    IN  IF normalized = NoneStr \/ (\E e \in scored : e.mbid = normalized)
        THEN scored
        ELSE scored \cup {[mbid |-> normalized, mbid_type |-> type]}

\* MBID_CONFIDENCE_SCORES, in hundredths
MBID_CONFIDENCE_SCORES ==
    [recording |-> 100, track |-> 95, release |-> 70, unknown |-> 50]

MBIDTypes == {"recording", "track", "release", "unknown"}

\* the confidence the constructor is given for the type
Confidence(e) == MBID_CONFIDENCE_SCORES[e.mbid_type]

\* an empty set of ScoredMBID, nothing added to it yet
NoScored == [set |-> {}, added |-> <<>>]

\* scored_mbids.add(ScoredMBID(mbid, mbid_type, confidence)) on its own
ScoredAdd(raw, type) ==
    /\ Len(scored_mbids.added) < MaxAdds
    /\ _normalize_mbid(raw) # NoneStr
    /\ scored_mbids' =
          [set |-> AddScored(scored_mbids.set, raw, type),
           added |-> Append(scored_mbids.added,
                            [mbid |-> _normalize_mbid(raw), mbid_type |-> type])]
    /\ UNCHANGED <<deepVars, varsMB, plexSide, deleted_count, mb_limiter, mbq, registry,
                   plex_mbid_table, boot>>

RECURSIVE AddTracks(_, _)
AddTracks(scored, tracks) ==
    IF tracks = <<>> THEN scored
    ELSE AddTracks(AddScored(scored, Head(tracks), "track"), Tail(tracks))

RECURSIVE AddReleases(_, _)
AddReleases(scored, releases) ==
    IF releases = <<>> THEN scored
    ELSE AddReleases(
           AddTracks(AddScored(scored, Head(releases).id, "release"),
                     Head(releases).tracks),
           Tail(releases))

RECURSIVE ParseRecordings(_, _)
ParseRecordings(scored, recordings) ==
    IF recordings = <<>> THEN scored
    ELSE ParseRecordings(
           AddReleases(AddScored(scored, Head(recordings).id, "recording"),
                       Head(recordings).releases),
           Tail(recordings))

\* outcomes of one GET: a status with a body, or a failure of the request
FirstOutcomes ==
    {[status |-> "200", data |-> d] : d \in Payloads}
    \cup {[status |-> s, data |-> <<>>] :
            s \in {"404", "503", "500", "timeout", "client_error"}}

RetryOutcomes ==
    {[status |-> "200", data |-> d] : d \in Payloads}
    \cup {[status |-> s, data |-> <<>>] : s \in {"503", "500", "timeout"}}

-----------------------------------------------------------------------------
(* The resolver: get_mbids_for_isrc, one step per suspension point *)

RawIsrcs == { <<"U", "S", "1">>, <<"u", "s", "-", "1">> }

Isrcs == {NormalizeIsrc(i) : i \in RawIsrcs}

IdleRes == [pc |-> "idle", isrc |-> <<>>, status |-> "", mbids |-> {},
            result |-> {}, via |-> ""]

\* get_mbids_for_isrc is entered with a non-empty ISRC
ResolveStart(p, raw) ==
    /\ res[p].pc = "idle"
    /\ mt[p].pc = "idle"
    /\ res' = [res EXCEPT ![p] = [IdleRes EXCEPT !.pc = "lookup",
                                                 !.isrc = NormalizeIsrc(raw)]]
    /\ UNCHANGED <<now, isrc_mbid_cache, bq, plexVars>>

\* cached = await get_cached_mbids(isrc); a hit returns it
ResolveLookup(p) ==
    /\ res[p].pc = "lookup"
    /\ LET cached == get_cached_mbids(res[p].isrc)
       IN  res' = [res EXCEPT ![p] =
                     IF cached.hit
                     THEN [@ EXCEPT !.pc = "done", !.result = cached.mbids,
                                    !.via = "cache"]
                     ELSE [@ EXCEPT !.pc = "acquire"]]
    /\ UNCHANGED <<now, isrc_mbid_cache, bq, plexVars>>

\* async with mb_rate_limiter
ResolveAcquire(p) ==
    /\ res[p].pc = "acquire"
    /\ res' = [res EXCEPT ![p].pc = "get"]
    /\ UNCHANGED <<now, isrc_mbid_cache, bq, plexVars>>

\* what query_musicbrainz_api returns for a parsed body
PlainMbids(data) == {sm.mbid : sm \in ParseRecordings({}, data)}

\* session.get(url): 404, the exceptions and every other status end in set();
\* 503 sleeps and retries once
ResolveGet(p, outcome) ==
    /\ res[p].pc = "get"
    /\ res' = [res EXCEPT ![p] =
                 IF outcome.status = "503"
                 THEN [@ EXCEPT !.pc = "retry", !.status = "503"]
                 ELSE [@ EXCEPT !.pc = "save", !.status = outcome.status,
                                !.mbids = IF outcome.status = "200"
                                          THEN PlainMbids(outcome.data)
                                          ELSE {}]]
    /\ UNCHANGED <<now, isrc_mbid_cache, bq, plexVars>>

\* the retry request after the 503
ResolveRetry(p, outcome) ==
    /\ res[p].pc = "retry"
    /\ res' = [res EXCEPT ![p] =
                 [@ EXCEPT !.pc = "save",
                           !.status = "503/" \o outcome.status,
                           !.mbids = IF outcome.status = "200"
                                     THEN PlainMbids(outcome.data)
                                     ELSE {}]]
    /\ UNCHANGED <<now, isrc_mbid_cache, bq, plexVars>>

\* mbids = _normalize_mbids(mbids); await save_mbids_to_cache(isrc, mbids)
ResolveSave(p) ==
    /\ res[p].pc = "save"
    /\ isrc_mbid_cache' = save_mbids_to_cache(res[p].isrc, res[p].mbids)
    /\ res' = [res EXCEPT ![p] = [@ EXCEPT !.pc = "done",
                                           !.result = _normalize_mbids(res[p].mbids),
                                           !.via = "api"]]
    /\ UNCHANGED <<now, bq, plexVars>>

\* the caller takes the result
ResolveReturn(p) ==
    /\ res[p].pc = "done"
    /\ mt[p].pc = "idle"
    /\ res' = [res EXCEPT ![p] = IdleRes]
    /\ UNCHANGED <<now, isrc_mbid_cache, bq, plexVars>>

\* cleanup_expired_cache: the DELETE and its cursor.rowcount
cleanup_expired_cache ==
    /\ isrc_mbid_cache' = isrc_mbid_cache \ ExpiredRows(isrc_mbid_cache, now)
    /\ deleted_count' = Cardinality(ExpiredRows(isrc_mbid_cache, now))
    /\ UNCHANGED <<deepVars, now, res, bq, plexSide, mb_limiter, mbq, scored_mbids, registry,
                   plex_mbid_table, boot>>

\* time passes
Tick(d) ==
    /\ d > now
    /\ now' = d
    /\ UNCHANGED <<isrc_mbid_cache, res, bq, plexVars>>

-----------------------------------------------------------------------------
(* get_mbids_for_isrcs_batch and warm_cache_for_isrcs *)

\* get_cached_mbids_batch, for one ISRC of the list: the rows are read in one
\* query; valid positive rows make the answer, a valid negative row alone
\* makes the empty set, anything else is None
get_cached_mbids_batch_at(cache, t, isrc) ==
    LET rows == RowsOf(cache, isrc)
        has_valid_negative ==
            \E r \in rows : r.is_negative = 1
                /\ NotExpired(r.cached_at, t, MUSICBRAINZ_NEGATIVE_CACHE_TTL_DAYS)
        valid_mbids == {r.mbid : r \in {x \in rows : x.is_negative = 0
                          /\ NotExpired(x.cached_at, t, MUSICBRAINZ_CACHE_TTL_DAYS)}}
    IN  IF rows = {} THEN CacheMiss
        ELSE IF has_valid_negative /\ valid_mbids = {} THEN CacheHit({})
        ELSE IF valid_mbids # {} THEN CacheHit(valid_mbids)
        ELSE CacheMiss

\* the lists of ISRCs a caller passes: empty, one ISRC written twice, two
\* ISRCs and an empty string, one ISRC written three times
IsrcLists ==
    { <<>>,
      << <<"U", "S", "1">>, <<"u", "s", "-", "1">> >>,
      << <<"u", "s", "-", "1">>, <<"G", "B", "2">>, <<>> >>,
      << <<"g", "b", "2">>, <<"G", "B", "-", "2">>, <<"G", "B", "2">> >> }

\* the ISRCs of a list as they reach the cache and the service
AllIsrcs == UNION { {NormalizeIsrc(l[i]) : i \in 1..Len(l)} : l \in IsrcLists }

\* a list passed with its spellings kept apart
Deduplicated_AsWritten(isrcs) ==
    {isrcs[i] : i \in {j \in 1..Len(isrcs) : isrcs[j] # <<>>}}

\* list({isrc.upper().replace("-", "") for isrc in isrcs if isrc})
Deduplicated(isrcs) ==
    {NormalizeIsrc(isrcs[i]) : i \in {j \in 1..Len(isrcs) : isrcs[j] # <<>>}}

\* the locals of one call: normalized_isrcs, results, cache_misses (those
\* still to fetch), the ISRC the loop is at with the state of its query,
\* fetched (the counter of warm_cache_for_isrcs), and for every ISRC how many
\* times query_musicbrainz_api was called for it
IdleBq == [pc |-> "idle", warm |-> FALSE, isrcs |-> <<>>, normalized_isrcs |-> {},
           results |-> <<>>, cache_misses |-> {}, cur |-> <<>>, status |-> "",
           mbids |-> {}, fetched |-> 0, queries |-> <<>>, valid |-> {}]

\* the step of the loop over cache_misses once misses are left or not
AfterMiss(misses) == IF misses = {} THEN "done" ELSE "acquire"

\* the function is entered: an empty list returns at once; otherwise the
\* ISRCs are normalized and deduplicated and one get_cached_mbids_batch
\* splits them into hits and misses
BatchResolveStart(isrcs, warm) ==
    /\ bq.pc = "idle"
    /\ IF isrcs = <<>>
       THEN bq' = [IdleBq EXCEPT !.pc = "done", !.warm = warm]
       ELSE LET normalized == Deduplicated(isrcs)
                hits == {i \in normalized :
                           get_cached_mbids_batch_at(isrc_mbid_cache, now, i).hit}
            IN  bq' = [IdleBq EXCEPT
                         !.pc = AfterMiss(normalized \ hits),
                         !.warm = warm,
                         !.isrcs = isrcs,
                         !.normalized_isrcs = normalized,
                         !.results =
                            IF warm THEN <<>>
                            ELSE [i \in hits |->
                                    get_cached_mbids_batch_at(isrc_mbid_cache, now,
                                                              i).mbids],
                         !.cache_misses = normalized \ hits,
                         !.queries = [i \in normalized |-> 0],
                         !.valid = {i \in normalized :
                                      \E r \in RowsOf(isrc_mbid_cache, i) :
                                         NotExpired(r.cached_at, now,
                                            IF r.is_negative = 1
                                            THEN MUSICBRAINZ_NEGATIVE_CACHE_TTL_DAYS
                                            ELSE MUSICBRAINZ_CACHE_TTL_DAYS)}]
    /\ UNCHANGED <<now, isrc_mbid_cache, res, plexVars>>

\* for isrc in cache_misses (a list made from a set: any order):
\* query_musicbrainz_api(isrc) is called and waits for mb_rate_limiter
BatchResolveAcquire(isrc) ==
    /\ bq.pc = "acquire"
    /\ isrc \in bq.cache_misses
    /\ bq' = [bq EXCEPT !.pc = "get", !.cur = isrc,
                        !.queries = [@ EXCEPT ![isrc] = @ + 1]]
    /\ UNCHANGED <<now, isrc_mbid_cache, res, plexVars>>

\* session.get(url), as in the single resolution
BatchResolveGet(outcome) ==
    /\ bq.pc = "get"
    /\ bq' = IF outcome.status = "503"
             THEN [bq EXCEPT !.pc = "retry", !.status = "503"]
             ELSE [bq EXCEPT !.pc = "save", !.status = outcome.status,
                             !.mbids = IF outcome.status = "200"
                                       THEN PlainMbids(outcome.data) ELSE {}]
    /\ UNCHANGED <<now, isrc_mbid_cache, res, plexVars>>

\* the retry request after the 503
BatchResolveRetry(outcome) ==
    /\ bq.pc = "retry"
    /\ bq' = [bq EXCEPT !.pc = "save", !.status = "503/" \o outcome.status,
                        !.mbids = IF outcome.status = "200"
                                  THEN PlainMbids(outcome.data) ELSE {}]
    /\ UNCHANGED <<now, isrc_mbid_cache, res, plexVars>>

\* mbids = _normalize_mbids(mbids); await save_mbids_to_cache(isrc, mbids);
\* results[isrc] = mbids, or fetched += 1 when the cache is warmed
BatchResolveSave ==
    /\ bq.pc = "save"
    /\ isrc_mbid_cache' = save_mbids_to_cache(bq.cur, bq.mbids)
    /\ bq' = [bq EXCEPT
                !.pc = AfterMiss(bq.cache_misses \ {bq.cur}),
                !.cache_misses = @ \ {bq.cur},
                !.results = IF bq.warm THEN @
                            ELSE [i \in DOMAIN @ \cup {bq.cur} |->
                                    IF i = bq.cur THEN _normalize_mbids(bq.mbids)
                                    ELSE @[i]],
                !.fetched = IF bq.warm THEN @ + 1 ELSE @,
                !.cur = <<>>, !.status = "", !.mbids = {}]
    /\ UNCHANGED <<now, res, plexVars>>

\* the caller takes the dict, or the count
BatchResolveReturn ==
    /\ bq.pc = "done"
    /\ bq' = IdleBq
    /\ UNCHANGED <<now, isrc_mbid_cache, res, plexVars>>

-----------------------------------------------------------------------------
(* query_musicbrainz_api_with_scores in time: mb_rate_limiter and the retry *)

\* mb_rate_limiter = AsyncLimiter(1, 1.1): a bucket of capacity 1 that takes
\* 1.1 s to leak what one acquisition pours in. The clock counts tenths of a
\* second.
MB_MAX_RATE == 1
MB_TIME_PERIOD == 11

\* asyncio.sleep(2) after a 503
RETRY_SLEEP == 20

\* no acquisition yet, no request yet
IdleLimiter == [clock |-> 0, taken_at |-> NoneInt, requests |-> 0,
                request_at |-> NoneInt]

IdleQuery == [pc |-> "idle", wake |-> 0]

\* the bucket has leaked what the latest acquisition poured in
MbHasCapacity ==
    \/ mb_limiter.taken_at = NoneInt
    \/ mb_limiter.clock - mb_limiter.taken_at >= MB_TIME_PERIOD * MB_MAX_RATE

\* a tenth of a second goes by
MbTick ==
    /\ mb_limiter.clock < MaxMbClock
    /\ mb_limiter' = [mb_limiter EXCEPT !.clock = @ + 1]
    /\ UNCHANGED <<deepVars, varsMB, plexSide, deleted_count, mbq, scored_mbids, registry,
                   plex_mbid_table, boot>>

\* query_musicbrainz_api_with_scores(isrc) is called and waits for the limiter
QueryStart(p) ==
    /\ mbq[p].pc = "idle"
    /\ mbq' = [mbq EXCEPT ![p].pc = "acquire"]
    /\ UNCHANGED <<deepVars, varsMB, plexSide, deleted_count, mb_limiter, scored_mbids, registry,
                   plex_mbid_table, boot>>

\* async with mb_rate_limiter: the slot is taken and the GET is sent at once
QueryGet(p) ==
    /\ mbq[p].pc = "acquire"
    /\ MbHasCapacity
    /\ mb_limiter' = [mb_limiter EXCEPT !.taken_at = mb_limiter.clock,
                                        !.requests = @ + 1,
                                        !.request_at = mb_limiter.clock]
    /\ mbq' = [mbq EXCEPT ![p].pc = "get"]
    /\ UNCHANGED <<deepVars, varsMB, plexSide, deleted_count, scored_mbids, registry,
                   plex_mbid_table, boot>>

\* the response arrives: a 503 sleeps 2 s before the retry, anything else
\* ends the query
QueryResponse(p, status) ==
    /\ mbq[p].pc = "get"
    /\ mbq' = [mbq EXCEPT ![p] =
                 IF status = "503"
                 THEN [pc |-> "sleep", wake |-> mb_limiter.clock + RETRY_SLEEP]
                 ELSE IdleQuery]
    /\ UNCHANGED <<deepVars, varsMB, plexSide, deleted_count, mb_limiter, scored_mbids, registry,
                   plex_mbid_table, boot>>

\* the sleep is over: session.get(url) once more, inside the same
\* "async with mb_rate_limiter", which is not acquired again
QueryRetry(p) ==
    /\ mbq[p].pc = "sleep"
    /\ mb_limiter.clock >= mbq[p].wake
    /\ mb_limiter' = [mb_limiter EXCEPT !.requests = @ + 1,
                                        !.request_at = mb_limiter.clock]
    /\ mbq' = [mbq EXCEPT ![p].pc = "retry"]
    /\ UNCHANGED <<deepVars, varsMB, plexSide, deleted_count, scored_mbids, registry,
                   plex_mbid_table, boot>>

\* the response to the retry ends the query
QueryRetryResponse(p) ==
    /\ mbq[p].pc = "retry"
    /\ mbq' = [mbq EXCEPT ![p] = IdleQuery]
    /\ UNCHANGED <<deepVars, varsMB, plexSide, deleted_count, mb_limiter, scored_mbids, registry,
                   plex_mbid_table, boot>>

-----------------------------------------------------------------------------
(* ServiceRegistry: register and sync_all *)

\* the names of the provider classes that may be registered
ProviderNames == {"spotify", "deezer", "dummy"}

\* the part of UserInputs the providers read
UserInputsSet ==
    [spotipy_client_id : BOOLEAN, spotify_user_id : BOOLEAN,
     deezer_user_id : BOOLEAN, deezer_playlist_ids : BOOLEAN]

NoInputs == [spotipy_client_id |-> FALSE, spotify_user_id |-> FALSE,
             deezer_user_id |-> FALSE, deezer_playlist_ids |-> FALSE]

\* is_configured of the provider registered under the name: Spotify wants its
\* credentials and the user, Deezer a user or a list of playlists, the dummy
\* provider of the tests is always configured
is_configured(name, user_inputs) ==
    CASE name = "spotify" ->
           user_inputs.spotipy_client_id /\ user_inputs.spotify_user_id
      [] name = "deezer" ->
           user_inputs.deezer_user_id \/ user_inputs.deezer_playlist_ids
      [] OTHER -> TRUE

\* an empty registry and no sync_all running
IdleRegistry == [providers |-> <<>>, pc |-> "idle", user_inputs |-> NoInputs,
                 tasks |-> <<>>, called |-> <<>>, ran |-> {}, raised |-> FALSE]

\* cls._providers[instance.name] = instance: a new name goes to the end of the
\* dict, a name already there keeps its place
Register(name) ==
    /\ registry.pc \in {"idle", "done"}
    /\ registry' = [registry EXCEPT
                      !.providers = IF Contains(@, name) THEN @ ELSE Append(@, name)]
    /\ UNCHANGED <<deepVars, varsMB, plexSide, deleted_count, mb_limiter, mbq, scored_mbids,
                   plex_mbid_table, boot>>

\* the names of the list for which the provider is configured, in the order of
\* the list
ConfiguredOf_NoFilter(providers, user_inputs) == providers

ConfiguredOf(providers, user_inputs) ==
    SelectSeq(providers, LAMBDA name : is_configured(name, user_inputs))

\* sync_all, the list comprehension: provider.sync(plex, user_inputs) is called
\* for every provider of the dict that is configured; without any, sync_all
\* returns
SyncAllStart(user_inputs) ==
    /\ registry.pc \in {"idle", "done"}
    /\ LET tasks == ConfiguredOf(registry.providers, user_inputs)
       IN  registry' = [registry EXCEPT
                          !.pc = IF tasks = <<>> THEN "done" ELSE "gather",
                          !.user_inputs = user_inputs,
                          !.tasks = tasks,
                          !.called = tasks,
                          !.ran = {},
                          !.raised = FALSE]
    /\ UNCHANGED <<deepVars, varsMB, plexSide, deleted_count, mb_limiter, mbq, scored_mbids,
                   plex_mbid_table, boot>>

\* asyncio.gather(*tasks): the sync of one task runs to its end or raises
SyncRun(name, ok) ==
    /\ registry.pc = "gather"
    /\ Contains(registry.tasks, name)
    /\ name \notin registry.ran
    /\ registry' = [registry EXCEPT !.ran = @ \cup {name},
                                    !.raised = @ \/ ~ok]
    /\ UNCHANGED <<deepVars, varsMB, plexSide, deleted_count, mb_limiter, mbq, scored_mbids,
                   plex_mbid_table, boot>>

\* gather is over: every task is done, or one has raised and sync_all raises
SyncAllReturn ==
    /\ registry.pc = "gather"
    /\ registry.raised \/ \A i \in 1..Len(registry.tasks) : registry.tasks[i] \in registry.ran
    /\ registry' = [registry EXCEPT !.pc = "done"]
    /\ UNCHANGED <<deepVars, varsMB, plexSide, deleted_count, mb_limiter, mbq, scored_mbids,
                   plex_mbid_table, boot>>

-----------------------------------------------------------------------------
(* The match engine: what each stage of _match_single_track computes *)

Free == "free"

\* plex_rate_limiter = AsyncLimiter(5, 1): at most MAX_RATE units in the
\* bucket, which leaks MAX_RATE units per TIME_PERIOD second
MAX_RATE == 5
TIME_PERIOD == 1

Get(d, k, default) == IF Has(d, k) THEN d[k] ELSE default

\* the value None of a Track
NoTrack == [title |-> NoneStr, artist |-> <<>>, album |-> <<>>, year |-> <<>>,
            genre |-> <<>>, isrc |-> NoIsrc, duration_ms |-> NoneInt]

\* plex.library.search(libtype="track", **{"track.guid": guid}): the items that
\* carry exactly this guid, in library order
GuidSearch(guid) ==
    LET keys == [i \in 1..Len(PlexLibrary) |-> PlexLibrary[i].ratingKey]
    IN  SelectSeq(keys, LAMBDA rk :
                    \E j \in 1..Len(Item(rk).guids) : Item(rk).guids[j] = guid)

IsrcGuid(isrc) == <<"isrc://">> \o isrc
MbidGuid(mbid) == <<"mbid://">> \o mbid

\* the best of a list of scores as the loops keep it: a later score replaces
\* the best only when strictly greater; idx 0 when none is above zero
RECURSIVE BestFrom(_, _, _)
BestFrom(scores, i, best) ==
    IF i > Len(scores) THEN best
    ELSE BestFrom(scores, i + 1,
                  IF RatioAbove(scores[i], best.score)
                  THEN [idx |-> i, score |-> scores[i]] ELSE best)

Best(scores) == BestFrom(scores, 1, [idx |-> 0, score |-> <<0, 1>>])

Abs(x) == IF x < 0 THEN -x ELSE x

NoMatch == [item |-> NoItem, stage |-> "none"]

\* if best_candidate and best_score >= percent / 100
Pick(candidates, best, percent, stage) ==
    IF best.idx # 0 /\ RatioAtLeast(best.score, percent)
    THEN [item |-> candidates[best.idx], stage |-> stage]
    ELSE NoMatch

\* the normalized full key looked up in the index of the raw keys
NormalizedExactOn_RawIndex(k) ==
    IF Has(plex_tracks_cache_index, k.lookup_key_full)
    THEN [item |-> plex_tracks_cache_index[k.lookup_key_full], stage |-> "normalized"]
    ELSE NoMatch

\* Stage "normalized full-key exact"
NormalizedExactOn(k) ==
    IF Has(plex_lookup_full, k.lookup_key_full)
    THEN [item |-> plex_lookup_full[k.lookup_key_full], stage |-> "normalized"]
    ELSE NoMatch

\* the candidates of the three neighbouring buckets
BucketCandidates(bucket_candidates, b) ==
    Get(bucket_candidates, b - 1, <<>>) \o Get(bucket_candidates, b, <<>>)
    \o Get(bucket_candidates, b + 1, <<>>)

\* a candidate without duration or outside the tolerance is skipped, the others
\* score their title similarity
DurationScore(s, track) ==
    IF s.duration = NoneInt \/ Abs(s.duration - track.duration_ms) > DURATION_TOLERANCE_MS
    THEN <<0, 1>>
    ELSE sim(s.title, track.title)

DurationBest(candidates, track) ==
    Pick(candidates,
         Best([i \in 1..Len(candidates) |-> DurationScore(Item(candidates[i]), track)]),
         85, "duration")

\* Stage "duration-aware partial": partial key, the three neighbouring
\* buckets, the tolerance, and a title similarity of at least 0.85
DurationPartialOn(track, k) ==
    IF track.duration_ms = NoneInt \/ _get_duration_bucket(track.duration_ms) = NoneInt
    THEN NoMatch
    ELSE DurationBest(
           BucketCandidates(Get(plex_partial_duration_index, k.lookup_key_partial,
                                EmptyDict),
                            _get_duration_bucket(track.duration_ms)),
           track)

ArtistBest(artist_candidates, track) ==
    Pick(artist_candidates,
         Best([i \in 1..Len(artist_candidates) |->
                 sim(Item(artist_candidates[i]).title, track.title)]),
         88, "artist")

\* Stage "artist-index fuzzy": the tracks of the normalized artist, and a
\* title similarity of at least 0.88
ArtistFuzzyOn(track, k) == ArtistBest(Get(plex_artist_index, k.artist_norm, <<>>), track)

\* the first of two stage results that is a match
OrElse(first, second) == IF first.item # NoItem THEN first ELSE second

ExtendedStagesOn_ArtistFirst(track, k) ==
    OrElse(ArtistFuzzyOn(track, k),
           OrElse(NormalizedExactOn(k), DurationPartialOn(track, k)))

\* the three stages on the extended indexes, in the order of the code
ExtendedStagesOn(track, k) ==
    OrElse(NormalizedExactOn(k),
           OrElse(DurationPartialOn(track, k), ArtistFuzzyOn(track, k)))

KeysOfTrack(track) == _build_lookup_keys(track.title, track.artist, track.album)

ExtendedStages(track) == ExtendedStagesOn(track, KeysOfTrack(track))
NormalizedExact(track) == NormalizedExactOn(KeysOfTrack(track))
DurationPartial(track) == DurationPartialOn(track, KeysOfTrack(track))
ArtistFuzzy(track) == ArtistFuzzyOn(track, KeysOfTrack(track))

\* Stage "raw-key exact" on plex_tracks_cache_index
RawExactOn(key) ==
    IF Has(plex_tracks_cache_index, key)
    THEN [item |-> plex_tracks_cache_index[key], stage |-> "raw"]
    ELSE NoMatch

RawExact(track) == RawExactOn(LowerKey(track.title, track.artist, track.album))

\* fractions
RECURSIVE GCD(_, _)
GCD(a, b) == IF b = 0 THEN a ELSE GCD(b, a % b)
DivideBy(a, g) == <<a[1] \div g, a[2] \div g>>
Reduce(a) == IF a[1] = 0 THEN <<0, 1>> ELSE DivideBy(a, GCD(a[1], a[2]))
RAdd(a, b) == Reduce(<<a[1] * b[2] + b[1] * a[2], a[2] * b[2]>>)
\* (k / d) * a
RScale(k, d, a) == Reduce(<<k * a[1], d * a[2]>>)
RZero == <<0, 1>>

\* the parts of the weighted score of search_and_score for one candidate s
BaseScore(s, track) ==
    RAdd(RAdd(RScale(4, 10, sim(s.title, track.title)),
              RScale(3, 10, sim(s.artist, track.artist))),
         RScale(2, 10, sim(s.album, track.album)))

VersionScore(s, track) ==
    IF Contains(track.title, "(") /\ Contains(s.title, "(")
    THEN RScale(1, 10, sim(VersionOf(track.title), VersionOf(s.title)))
    ELSE RZero

YearScore(s, track) ==
    IF track.year # <<>> /\ s.year # 0 /\ ParseInt(track.year) = s.year
    THEN <<1, 10>> ELSE RZero

GenreScore(s, track) ==
    IF track.genre # <<>> /\ s.genres # <<>>
       /\ \E i \in 1..Len(s.genres) : RatioAbove(sim(s.genres[i], track.genre), <<8, 10>>)
    THEN <<1, 10>> ELSE RZero

ScoreOf(s, track) ==
    RAdd(RAdd(RAdd(BaseScore(s, track), VersionScore(s, track)), YearScore(s, track)),
         GenreScore(s, track))

Score(rk, track) == ScoreOf(Item(rk), track)

\* the cached tracks that share the artist, the title or the album
SameField(values, track) ==
    SelectSeq(values, LAMBDA rk :
        \/ MapSeq(Item(rk).artist, lower) = MapSeq(track.artist, lower)
        \/ MapSeq(Item(rk).title, lower) = MapSeq(track.title, lower)
        \/ MapSeq(Item(rk).album, lower) = MapSeq(track.album, lower))

\* if not candidates: the first MAX_SEARCH_CANDIDATES values
OrFirstValues(same, values) ==
    IF same = <<>>
    THEN SubSeq(values, 1, Min(Len(values), MAX_SEARCH_CANDIDATES))
    ELSE same

CandidatesAmong(values, track) == OrFirstValues(SameField(values, track), values)

\* the candidates search_and_score takes from the cache
SearchCandidates(track) == CandidatesAmong(CacheValues(plex_tracks_cache), track)

\* best_match, best_score after a scoring loop
Kept(candidates, best_match, best) ==
    [match |-> IF best.idx = 0 THEN best_match ELSE candidates[best.idx],
     score |-> best.score]

\* scoring a list of candidates on top of the best so far
BestScored(candidates, track, best_match, best_score) ==
    Kept(candidates, best_match,
         BestFrom([i \in 1..Len(candidates) |-> Score(candidates[i], track)], 1,
                  [idx |-> 0, score |-> best_score]))

\* the thresholds of the four relaxations, in percent
Threshold(relax) == CASE relax = 1 -> 85 [] relax = 2 -> 60
                      [] relax = 3 -> 65 [] relax = 4 -> 55

\* len(track.title.split())
RECURSIVE WordCount(_)
WordCount(s) ==
    IF s = <<>> THEN 0
    ELSE IF s[1] \in Whitespace THEN WordCount(Tail(s))
    ELSE IF Len(s) = 1 \/ s[2] \in Whitespace THEN 1 + WordCount(Tail(s))
    ELSE WordCount(Tail(s))

\* the relaxation that follows one that found nothing; 5 when none is left
NextRelax(relax, track) ==
    IF relax = 1 /\ WordCount(track.title) <= 1 THEN 3 ELSE relax + 1

\* plex.search(query, mediatype="track", limit=20): which items the server
\* returns for a text query is its own business; any selection of the library
LiveResults ==
    { SelectSeq([i \in 1..Len(PlexLibrary) |-> PlexLibrary[i].ratingKey],
                LAMBDA rk : rk \in chosen) : chosen \in SUBSET RatingKeys }

-----------------------------------------------------------------------------
(* _match_single_track and _match_via_mbid_proxy, one step per await *)

\* no earlier run of the same track
NoRun == [result |-> NoItem, stage |-> "", mbids |-> {}]

IdleTask == [pc |-> "idle", track |-> NoTrack, mbids |-> {}, order |-> <<>>,
             i |-> 0, relax |-> 0, best_match |-> NoItem, best_score |-> RZero,
             slot |-> FALSE, result |-> NoItem, missing |-> NoTrack,
             stage |-> "", first |-> NoRun]

\* return item, None
Matched(task, item, stage) ==
    [task EXCEPT !.pc = "done", !.result = item, !.missing = NoTrack,
                 !.stage = stage]

Missing_DropsTrack(task) ==
    [task EXCEPT !.pc = "done", !.result = NoItem, !.missing = NoTrack,
                 !.stage = "none"]

\* return None, track
Missing(task) ==
    [task EXCEPT !.pc = "done", !.result = NoItem, !.missing = task.track,
                 !.stage = "none"]

\* where the function goes on once the identifier stages are over
AfterIds == IF extended_cache_enabled THEN "ext" ELSE "raw"

\* the first pc of a run
FirstPc(track) == IF track.isrc # NoIsrc THEN "isrc_acquire" ELSE AfterIds

MatchStart(p, track) ==
    /\ mt[p].pc = "idle"
    /\ res[p].pc = "idle"
    /\ mt' = [mt EXCEPT ![p] = [IdleTask EXCEPT !.pc = FirstPc(track),
                                                !.track = track]]
    /\ UNCHANGED <<varsMB, cacheVars, plex_mbid_index, cache_lock, confVars, auxVars, jobVars, syncVars,
                   plex_level, last_call>>

\* the awaits of _acquire_rate_limit and the Plex call each of them precedes
AcquirePcs == {"isrc_acquire", "mbid_fetch_acquire", "fb_acquire", "s7_acquire"}
CallAfter(pc) == CASE pc = "isrc_acquire" -> "isrc_search"
                   [] pc = "mbid_fetch_acquire" -> "mbid_fetch"
                   [] pc = "fb_acquire" -> "fb_search"
                   [] pc = "s7_acquire" -> "s7_search"

\* async with plex_rate_limiter: a unit is taken when the bucket has room
_acquire_rate_limit(p) ==
    /\ mt[p].pc \in AcquirePcs
    /\ plex_level + 1 <= MAX_RATE
    /\ plex_level' = plex_level + 1
    /\ mt' = [mt EXCEPT ![p] = [@ EXCEPT !.pc = CallAfter(mt[p].pc), !.slot = TRUE]]
    /\ UNCHANGED <<varsMB, cacheVars, plex_mbid_index, cache_lock, confVars, auxVars, jobVars, syncVars,
                   last_call>>

\* the stopwatch runs from the first of the acquisitions in a row to the last
Running == stopwatch.n >= 1 /\ stopwatch.n < MaxAcquisitions
                            /\ stopwatch.since < MaxElapsed

\* 1 / MAX_RATE of TIME_PERIOD goes by: the bucket leaks one unit
LimiterLeak ==
    /\ plex_level > 0 \/ Running
    /\ plex_level' = IF plex_level > 0 THEN plex_level - 1 ELSE 0
    /\ stopwatch' = IF Running THEN [stopwatch EXCEPT !.since = @ + 1] ELSE stopwatch
    /\ UNCHANGED <<varsMB, cacheVars, plex_mbid_index, cache_lock, confVars, auxVars, jobVars,
                   last_call, mt, max_concurrent_workers, semaphore, pl,
                   plex_playlist>>

\* one coroutine awaits _acquire_rate_limit() again and again, and reads the
\* clock at each acquisition
TimedAcquire ==
    /\ stopwatch.n < MaxAcquisitions
    /\ plex_level + 1 <= MAX_RATE
    /\ plex_level' = plex_level + 1
    /\ stopwatch' = [stopwatch EXCEPT !.n = @ + 1, !.last = stopwatch.since]
    /\ UNCHANGED <<varsMB, cacheVars, plex_mbid_index, cache_lock, confVars, auxVars, jobVars,
                   last_call, mt, max_concurrent_workers, semaphore, pl,
                   plex_playlist>>

PlexCall(op, p) == [op |-> op, slot |-> mt[p].slot]

\* Stage "ISRC exact": plex.library.search by guid isrc://<isrc>
IsrcSearch(p, outcome) ==
    /\ mt[p].pc = "isrc_search"
    /\ last_call' = PlexCall("library.search", p)
    /\ LET results == GuidSearch(IsrcGuid(mt[p].track.isrc))
           task == [mt[p] EXCEPT !.slot = FALSE]
       IN  mt' = [mt EXCEPT ![p] =
                    IF outcome = "ok" /\ results # <<>>
                    THEN Matched(task, results[1], "isrc")
                    ELSE [task EXCEPT !.pc = IF musicbrainz_enabled
                                             THEN "mbid_resolve" ELSE AfterIds]]
    /\ UNCHANGED <<varsMB, cacheVars, plex_mbid_index, cache_lock, confVars, auxVars, jobVars, syncVars,
                   plex_level>>

\* Stage "MBID proxy": candidate_mbids = await get_mbids_for_isrc(track.isrc)
MbidResolve(p) ==
    /\ mt[p].pc = "mbid_resolve"
    /\ res[p].pc = "idle"
    /\ res' = [res EXCEPT ![p] = [IdleRes EXCEPT !.pc = "lookup",
                                                 !.isrc = NormalizeIsrc(mt[p].track.isrc)]]
    /\ mt' = [mt EXCEPT ![p].pc = "mbid_wait"]
    /\ UNCHANGED <<now, isrc_mbid_cache, bq, cacheVars, plex_mbid_index, cache_lock,
                   confVars, auxVars, jobVars, syncVars, plex_level, last_call>>

\* the orders in which a set can be iterated
Orders(S) == {f \in [1..Cardinality(S) -> S] : \A x \in S : \E i \in DOMAIN f : f[i] = x}

\* the positions from i on whose MBID normalizes
ValidFrom(order, i) == {j \in i..Len(order) : _normalize_mbid(order[j]) # NoneStr}
\* ... and is a key of plex_mbid_index
IndexedFrom(order, i) ==
    {j \in ValidFrom(order, i) : Has(plex_mbid_index, _normalize_mbid(order[j]))}
SetMin(S) == CHOOSE x \in S : \A y \in S : x <= y

\* the resolution returns its set; the two loops of _match_via_mbid_proxy then
\* iterate it, in the order the set happens to have
MbidResolved(p, order) ==
    /\ mt[p].pc = "mbid_wait"
    /\ res[p].pc = "done"
    /\ order \in Orders(res[p].result)
    /\ res' = [res EXCEPT ![p] = IdleRes]
    /\ mt' = [mt EXCEPT ![p] =
                IF res[p].result = {}
                THEN [@ EXCEPT !.pc = AfterIds]
                ELSE [@ EXCEPT !.pc = "mbid_index", !.mbids = res[p].result,
                               !.order = order, !.i = 1]]
    /\ UNCHANGED <<now, isrc_mbid_cache, bq, cacheVars, plex_mbid_index, cache_lock,
                   confVars, auxVars, jobVars, syncVars, plex_level, last_call>>

\* where the fallback loop starts or goes on, from position i
FallbackFrom(task, i) ==
    IF ValidFrom(task.order, i) = {}
    THEN [task EXCEPT !.pc = AfterIds]
    ELSE [task EXCEPT !.pc = "fb_acquire", !.i = SetMin(ValidFrom(task.order, i))]

MbidIndexLoop_AlwaysFetches(p) ==
    /\ mt[p].pc = "mbid_index"
    /\ cache_lock \in {Free, p}
    /\ LET hits == IndexedFrom(mt[p].order, mt[p].i)
           j == SetMin(hits)
       IN  IF hits = {}
           THEN /\ cache_lock' = Free
                /\ mt' = [mt EXCEPT ![p] = FallbackFrom(mt[p], 1)]
           ELSE /\ cache_lock' = p
                /\ mt' = [mt EXCEPT ![p] = [@ EXCEPT !.pc = "mbid_fetch_acquire",
                                                     !.i = j]]
    /\ UNCHANGED <<varsMB, cacheVars, plex_mbid_index, confVars, auxVars, jobVars, syncVars, plex_level,
                   last_call>>

\* async with cache_lock: the loop over the candidates against plex_mbid_index,
\* entered at position i (1, or after a fetch that failed)
MbidIndexLoop(p) ==
    /\ mt[p].pc = "mbid_index"
    /\ cache_lock \in {Free, p}
    /\ LET hits == IndexedFrom(mt[p].order, mt[p].i)
           j == SetMin(hits)
           entry == plex_mbid_index[_normalize_mbid(mt[p].order[j])]
       IN  IF hits = {}
           THEN /\ cache_lock' = Free
                /\ mt' = [mt EXCEPT ![p] = FallbackFrom(mt[p], 1)]
           ELSE IF entry.track # NoItem
           THEN /\ cache_lock' = Free
                /\ mt' = [mt EXCEPT ![p] = Matched(mt[p], entry.track, "mbid")]
           ELSE /\ cache_lock' = p
                /\ mt' = [mt EXCEPT ![p] = [@ EXCEPT !.pc = "mbid_fetch_acquire",
                                                     !.i = j]]
    /\ UNCHANGED <<varsMB, cacheVars, plex_mbid_index, confVars, auxVars, jobVars, syncVars, plex_level,
                   last_call>>

MbidFetch_CachesTrack(p, outcome) ==
    /\ mt[p].pc = "mbid_fetch"
    /\ last_call' = PlexCall("fetchItem", p)
    /\ LET mbid == _normalize_mbid(mt[p].order[mt[p].i])
           plex_id == plex_mbid_index[mbid].plex_id
           task == [mt[p] EXCEPT !.slot = FALSE]
       IN  IF outcome = "ok" /\ plex_id \in RatingKeys
           THEN /\ plex_mbid_index' = [plex_mbid_index EXCEPT ![mbid].track = plex_id]
                /\ plex_tracks_cache' =
                      CachePut(plex_tracks_cache, plex_mbid_index[mbid].track_key, plex_id)
                /\ cache_lock' = Free
                /\ mt' = [mt EXCEPT ![p] = Matched(task, plex_id, "mbid")]
           ELSE /\ mt' = [mt EXCEPT ![p] = [task EXCEPT !.pc = "mbid_index",
                                                        !.i = mt[p].i + 1]]
                /\ UNCHANGED <<plex_mbid_index, cache_lock, plex_tracks_cache>>
    /\ UNCHANGED <<varsMB, plex_tracks_cache_index, plex_lookup_full,
                   plex_lookup_partial, plex_partial_duration_index,
                   plex_artist_index, plex_duration_index, confVars, auxVars, jobVars,
                   syncVars, plex_level>>

\* plex.fetchItem(plex_id) for an entry whose track is not in memory, still
\* inside the cache_lock block
MbidFetch(p, outcome) ==
    /\ mt[p].pc = "mbid_fetch"
    /\ last_call' = PlexCall("fetchItem", p)
    /\ LET mbid == _normalize_mbid(mt[p].order[mt[p].i])
           plex_id == plex_mbid_index[mbid].plex_id
           task == [mt[p] EXCEPT !.slot = FALSE]
       IN  IF outcome = "ok" /\ plex_id \in RatingKeys
           THEN /\ plex_mbid_index' = [plex_mbid_index EXCEPT ![mbid].track = plex_id]
                /\ cache_lock' = Free
                /\ mt' = [mt EXCEPT ![p] = Matched(task, plex_id, "mbid")]
           ELSE /\ mt' = [mt EXCEPT ![p] = [task EXCEPT !.pc = "mbid_index",
                                                        !.i = mt[p].i + 1]]
                /\ UNCHANGED <<plex_mbid_index, cache_lock>>
    /\ UNCHANGED <<varsMB, cacheVars, confVars, auxVars, jobVars, syncVars, plex_level>>

\* the fallback loop: plex.library.search by guid mbid://<mbid>
FallbackSearch(p, outcome) ==
    /\ mt[p].pc = "fb_search"
    /\ last_call' = PlexCall("library.search", p)
    /\ LET results == GuidSearch(MbidGuid(_normalize_mbid(mt[p].order[mt[p].i])))
           task == [mt[p] EXCEPT !.slot = FALSE]
       IN  mt' = [mt EXCEPT ![p] =
                    IF outcome = "ok" /\ results # <<>>
                    THEN Matched(task, results[1], "mbid_fallback")
                    ELSE FallbackFrom(task, mt[p].i + 1)]
    /\ UNCHANGED <<varsMB, cacheVars, plex_mbid_index, cache_lock, confVars, auxVars, jobVars, syncVars,
                   plex_level>>

\* the stages on the extended indexes; no await between them
Extended(p) ==
    /\ mt[p].pc = "ext"
    /\ LET m == ExtendedStages(mt[p].track)
       IN  mt' = [mt EXCEPT ![p] = IF m.item # NoItem
                                   THEN Matched(mt[p], m.item, m.stage)
                                   ELSE [@ EXCEPT !.pc = "raw"]]
    /\ UNCHANGED <<varsMB, cacheVars, plex_mbid_index, cache_lock, confVars, auxVars, jobVars, syncVars,
                   plex_level, last_call>>

\* Stage "raw-key exact", under cache_lock
RawKeyExact(p) ==
    /\ mt[p].pc = "raw"
    /\ cache_lock = Free
    /\ LET m == RawExact(mt[p].track)
       IN  mt' = [mt EXCEPT ![p] = IF m.item # NoItem
                                   THEN Matched(mt[p], m.item, m.stage)
                                   ELSE [@ EXCEPT !.pc = "s7_cache", !.relax = 1]]
    /\ UNCHANGED <<varsMB, cacheVars, plex_mbid_index, cache_lock, confVars, auxVars, jobVars, syncVars,
                   plex_level, last_call>>

\* search_and_score, first half: the candidates of the cache are scored under
\* cache_lock; a best score at the threshold is returned without a live search
AfterCache(task, best) ==
    IF RatioAtLeast(best.score, Threshold(task.relax))
    THEN Matched(task, best.match, "relaxed")
    ELSE [task EXCEPT !.pc = "s7_acquire", !.best_match = best.match,
                      !.best_score = best.score]

SearchCache(p) ==
    /\ mt[p].pc = "s7_cache"
    /\ cache_lock = Free
    /\ mt' = [mt EXCEPT ![p] =
                AfterCache(mt[p], BestScored(SearchCandidates(mt[p].track),
                                             mt[p].track, NoItem, RZero))]
    /\ UNCHANGED <<varsMB, cacheVars, plex_mbid_index, cache_lock, confVars, auxVars, jobVars, syncVars,
                   plex_level, last_call>>

\* what search_and_score returns and what _match_single_track does with it
AfterSearch(task, best) ==
    LET relax == NextRelax(task.relax, task.track)
        fresh == [task EXCEPT !.best_match = NoItem, !.best_score = RZero]
    IN  IF RatioAtLeast(best.score, Threshold(task.relax))
        THEN Matched(fresh, best.match, "relaxed")
        ELSE IF relax <= 4
        THEN [fresh EXCEPT !.pc = "s7_cache", !.relax = relax]
        ELSE Missing(fresh)

\* search_and_score, second half: plex.search answers and its items are
\* scored on top of the best of the cache
LiveSearch(p, search) ==
    /\ mt[p].pc = "s7_search"
    /\ last_call' = PlexCall("search", p)
    /\ LET task == [mt[p] EXCEPT !.slot = FALSE]
       IN  mt' = [mt EXCEPT ![p] =
                    AfterSearch(task, BestScored(search, task.track, task.best_match,
                                                 task.best_score))]
    /\ UNCHANGED <<varsMB, cacheVars, plex_mbid_index, cache_lock, confVars, auxVars, jobVars, syncVars,
                   plex_level>>

\* plex.search raises BadRequest: swallowed, the best of the cache stands
LiveSearchBadRequest(p) ==
    /\ mt[p].pc = "s7_search"
    /\ last_call' = PlexCall("search", p)
    /\ LET task == [mt[p] EXCEPT !.slot = FALSE]
       IN  mt' = [mt EXCEPT ![p] =
                    AfterSearch(task, [match |-> task.best_match,
                                       score |-> task.best_score])]
    /\ UNCHANGED <<varsMB, cacheVars, plex_mbid_index, cache_lock, confVars, auxVars, jobVars, syncVars,
                   plex_level>>

\* plex.search raises anything else: nothing catches it inside
\* _match_single_track
LiveSearchRaises(p) ==
    /\ mt[p].pc = "s7_search"
    /\ last_call' = PlexCall("search", p)
    /\ mt' = [mt EXCEPT ![p] = [@ EXCEPT !.pc = "raised", !.slot = FALSE,
                                         !.best_match = NoItem, !.best_score = RZero]]
    /\ UNCHANGED <<varsMB, cacheVars, plex_mbid_index, cache_lock, confVars, auxVars, jobVars, syncVars,
                   plex_level>>

\* the same track is matched once more
MatchAgain(p) ==
    /\ mt[p].pc = "done"
    /\ mt[p].first = NoRun
    /\ mt' = [mt EXCEPT ![p] =
                [IdleTask EXCEPT !.pc = FirstPc(mt[p].track), !.track = mt[p].track,
                                 !.first = [result |-> mt[p].result,
                                            stage |-> mt[p].stage,
                                            mbids |-> mt[p].mbids]]]
    /\ UNCHANGED <<varsMB, cacheVars, plex_mbid_index, cache_lock, confVars, auxVars, jobVars, syncVars,
                   plex_level, last_call>>

\* the caller takes the pair, or the exception
MatchReturn(p) ==
    /\ mt[p].pc \in {"done", "raised"}
    /\ mt' = [mt EXCEPT ![p] = IdleTask]
    /\ UNCHANGED <<varsMB, cacheVars, plex_mbid_index, cache_lock, confVars, auxVars, jobVars, syncVars,
                   plex_level, last_call>>

-----------------------------------------------------------------------------
(* update_or_create_plex_playlist: the batch of matches, then the playlist *)

\* the server has no playlist of that name (NotFound)
NoPlaylist == <<NoItem>>

\* the tracks of the provider's playlist
BatchTracks ==
    << [title |-> <<"Y", "e", "s">>, artist |-> <<"A", "b">>, album |-> <<"H", "!">>,
        year |-> <<>>, genre |-> <<>>, isrc |-> <<"G", "B", "2">>,
        duration_ms |-> NoneInt],
       [title |-> <<"Y", "e", "s">>, artist |-> <<"X", "b">>, album |-> <<"H", "!">>,
        year |-> <<>>, genre |-> <<>>, isrc |-> NoIsrc, duration_ms |-> NoneInt],
       [title |-> <<"Q", " ", "q">>, artist |-> <<"Z", "z">>, album |-> <<"W", "w">>,
        year |-> <<>>, genre |-> <<>>, isrc |-> NoIsrc, duration_ms |-> NoneInt] >>

IdlePl == [pc |-> "idle", n |-> 0, append |-> FALSE, available |-> <<>>,
           missing |-> <<>>]

\* the tasks gather runs for a list of n tracks
BatchOf(n) == {TaskIds[i] : i \in 1..n}

\* the function is entered: an empty list returns at once, otherwise
\* _get_available_plex_tracks makes its semaphore and gather starts one
\* match_track per track
BatchStart(n, append) ==
    /\ pl.pc = "idle"
    /\ \A p \in Tasks : mt[p].pc = "idle" /\ res[p].pc = "idle"
    /\ IF n = 0
       THEN /\ pl' = [pl EXCEPT !.pc = "done"]
            /\ UNCHANGED <<mt, semaphore>>
       ELSE /\ pl' = [IdlePl EXCEPT !.pc = "matching", !.n = n, !.append = append]
            /\ semaphore' = max_concurrent_workers
            /\ mt' = [p \in Tasks |->
                        IF p \in BatchOf(n)
                        THEN [IdleTask EXCEPT
                                !.pc = "sem_wait",
                                !.track = BatchTracks[CHOOSE i \in 1..n : TaskIds[i] = p]]
                        ELSE IdleTask]
    /\ UNCHANGED <<varsMB, cacheVars, plex_mbid_index, cache_lock, confVars, auxVars, jobVars,
                   plex_level, last_call, stopwatch, max_concurrent_workers,
                   plex_playlist>>

\* async with semaphore: a permit is taken and _match_single_track is entered
SemAcquire(p) ==
    /\ mt[p].pc = "sem_wait"
    /\ semaphore > 0
    /\ semaphore' = semaphore - 1
    /\ mt' = [mt EXCEPT ![p].pc = FirstPc(mt[p].track)]
    /\ UNCHANGED <<varsMB, cacheVars, plex_mbid_index, cache_lock, confVars, auxVars, jobVars,
                   plex_level, last_call, stopwatch, max_concurrent_workers, pl,
                   plex_playlist>>

\* _match_single_track is left, with its pair or with its exception, and the
\* permit is given back
SemRelease(p) ==
    /\ mt[p].pc \in {"done", "raised"}
    /\ pl.pc \in {"matching", "failed"}
    /\ semaphore' = semaphore + 1
    /\ mt' = [mt EXCEPT ![p].pc = IF mt[p].pc = "done" THEN "returned" ELSE "failed"]
    /\ UNCHANGED <<varsMB, cacheVars, plex_mbid_index, cache_lock, confVars, auxVars, jobVars,
                   plex_level, last_call, stopwatch, max_concurrent_workers, pl,
                   plex_playlist>>

\* [result[0] for result in results if result[0]], in the order of the input
RECURSIVE PlexTracksOf(_)
PlexTracksOf(n) ==
    IF n = 0 THEN <<>>
    ELSE IF mt[TaskIds[n]].result # NoItem
    THEN Append(PlexTracksOf(n - 1), mt[TaskIds[n]].result)
    ELSE PlexTracksOf(n - 1)

\* [result[1] for result in results if result[1]]
RECURSIVE MissingTracksOf(_)
MissingTracksOf(n) ==
    IF n = 0 THEN <<>>
    ELSE IF mt[TaskIds[n]].missing # NoTrack
    THEN Append(MissingTracksOf(n - 1), mt[TaskIds[n]].missing)
    ELSE MissingTracksOf(n - 1)

\* the lists built from the results as the matches completed them, here the
\* last track of the input first
GatherReturns_AsCompleted ==
    /\ pl.pc = "matching"
    /\ \A p \in BatchOf(pl.n) : mt[p].pc = "returned"
    /\ LET Reversed(seq) == [i \in 1..Len(seq) |-> seq[Len(seq) + 1 - i]]
       IN  pl' = [pl EXCEPT !.pc = IF PlexTracksOf(pl.n) # <<>> THEN "pl_lookup"
                                                                ELSE "report",
                            !.available = Reversed(PlexTracksOf(pl.n)),
                            !.missing = Reversed(MissingTracksOf(pl.n))]
    /\ UNCHANGED <<varsMB, cacheVars, plex_mbid_index, cache_lock, confVars, auxVars, jobVars,
                   plex_level, last_call, mt, stopwatch, max_concurrent_workers,
                   semaphore, plex_playlist>>

\* gather has every result: the two lists are built; without an available
\* track the playlist is left alone
GatherReturns ==
    /\ pl.pc = "matching"
    /\ \A p \in BatchOf(pl.n) : mt[p].pc = "returned"
    /\ pl' = [pl EXCEPT !.pc = IF PlexTracksOf(pl.n) # <<>> THEN "pl_lookup"
                                                            ELSE "report",
                        !.available = PlexTracksOf(pl.n),
                        !.missing = MissingTracksOf(pl.n)]
    /\ UNCHANGED <<varsMB, cacheVars, plex_mbid_index, cache_lock, confVars, auxVars, jobVars,
                   plex_level, last_call, mt, stopwatch, max_concurrent_workers,
                   semaphore, plex_playlist>>

\* gather passes on the first exception of a match; the other matches go on
GatherRaises ==
    /\ pl.pc = "matching"
    /\ \E p \in BatchOf(pl.n) : mt[p].pc = "failed"
    /\ pl' = [pl EXCEPT !.pc = "failed"]
    /\ UNCHANGED <<varsMB, cacheVars, plex_mbid_index, cache_lock, confVars, auxVars, jobVars,
                   plex_level, last_call, mt, stopwatch, max_concurrent_workers,
                   semaphore, plex_playlist>>

\* a call of the playlist code to the Plex server: none of them awaits
\* _acquire_rate_limit
PlaylistCall(op) == [op |-> op, slot |-> FALSE]

\* plex.playlist(name) in update_or_create_plex_playlist: NotFound leads to
\* the creation, any other exception leaves the function
PlaylistLookup(outcome) ==
    /\ pl.pc = "pl_lookup"
    /\ last_call' = PlaylistCall("playlist")
    /\ pl' = [pl EXCEPT !.pc = IF outcome = "error" THEN "failed"
                               ELSE IF plex_playlist = NoPlaylist THEN "pl_create"
                               ELSE "up_lookup"]
    /\ UNCHANGED <<varsMB, cacheVars, plex_mbid_index, cache_lock, confVars, auxVars, jobVars,
                   plex_level, mt, stopwatch, max_concurrent_workers, semaphore,
                   plex_playlist>>

\* plex.playlist(name) in _update_plex_playlist
UpdateLookup(outcome) ==
    /\ pl.pc = "up_lookup"
    /\ last_call' = PlaylistCall("playlist")
    /\ pl' = [pl EXCEPT !.pc = IF outcome = "error" THEN "failed"
                               ELSE IF pl.append THEN "up_add" ELSE "up_items"]
    /\ UNCHANGED <<varsMB, cacheVars, plex_mbid_index, cache_lock, confVars, auxVars, jobVars,
                   plex_level, mt, stopwatch, max_concurrent_workers, semaphore,
                   plex_playlist>>

\* plex_playlist.items()
UpdateItems(outcome) ==
    /\ pl.pc = "up_items"
    /\ last_call' = PlaylistCall("items")
    /\ pl' = [pl EXCEPT !.pc = IF outcome = "error" THEN "failed" ELSE "up_remove"]
    /\ UNCHANGED <<varsMB, cacheVars, plex_mbid_index, cache_lock, confVars, auxVars, jobVars,
                   plex_level, mt, stopwatch, max_concurrent_workers, semaphore,
                   plex_playlist>>

\* plex_playlist.removeItems(items)
UpdateRemove(outcome) ==
    /\ pl.pc = "up_remove"
    /\ last_call' = PlaylistCall("removeItems")
    /\ pl' = [pl EXCEPT !.pc = IF outcome = "error" THEN "failed" ELSE "up_add"]
    /\ plex_playlist' = IF outcome = "error" THEN plex_playlist ELSE <<>>
    /\ UNCHANGED <<varsMB, cacheVars, plex_mbid_index, cache_lock, confVars, auxVars, jobVars,
                   plex_level, mt, stopwatch, max_concurrent_workers, semaphore>>

\* plex_playlist.addItems(available_tracks)
UpdateAdd(outcome) ==
    /\ pl.pc = "up_add"
    /\ last_call' = PlaylistCall("addItems")
    /\ pl' = [pl EXCEPT !.pc = IF outcome = "error" THEN "failed" ELSE "pl_edit"]
    /\ plex_playlist' = IF outcome = "error" THEN plex_playlist
                        ELSE plex_playlist \o pl.available
    /\ UNCHANGED <<varsMB, cacheVars, plex_mbid_index, cache_lock, confVars, auxVars, jobVars,
                   plex_level, mt, stopwatch, max_concurrent_workers, semaphore>>

\* plex.createPlaylist(title=name, items=available_tracks)
PlaylistCreate(outcome) ==
    /\ pl.pc = "pl_create"
    /\ last_call' = PlaylistCall("createPlaylist")
    /\ pl' = [pl EXCEPT !.pc = IF outcome = "error" THEN "failed" ELSE "pl_edit"]
    /\ plex_playlist' = IF outcome = "error" THEN plex_playlist ELSE pl.available
    /\ UNCHANGED <<varsMB, cacheVars, plex_mbid_index, cache_lock, confVars, auxVars, jobVars,
                   plex_level, mt, stopwatch, max_concurrent_workers, semaphore>>

\* plex_playlist.edit(summary=...) and plex_playlist.uploadPoster(url=...), when
\* the playlist has them and the configuration asks for them; their
\* exceptions are logged
PlaylistDecorate(edit, poster) ==
    /\ pl.pc = "pl_edit"
    /\ last_call' = IF poster THEN PlaylistCall("uploadPoster")
                    ELSE IF edit THEN PlaylistCall("edit") ELSE last_call
    /\ pl' = [pl EXCEPT !.pc = "report"]
    /\ UNCHANGED <<varsMB, cacheVars, plex_mbid_index, cache_lock, confVars, auxVars, jobVars,
                   plex_level, mt, stopwatch, max_concurrent_workers, semaphore,
                   plex_playlist>>

\* the report of the missing tracks is written, or the old one deleted
PlaylistReport ==
    /\ pl.pc = "report"
    /\ pl' = [pl EXCEPT !.pc = "done"]
    /\ UNCHANGED <<varsMB, cacheVars, plex_mbid_index, cache_lock, confVars, auxVars, jobVars,
                   plex_level, last_call, mt, stopwatch, max_concurrent_workers,
                   semaphore, plex_playlist>>

-----------------------------------------------------------------------------
(* fetch_and_cache_tracks: the full scan of the library, page by page *)

\* the triggers of a scan that can overlap
Builders == {"b1", "b2"}

\* @retry(stop=stop_after_attempt(3)) on fetch_plex_tracks
FETCH_ATTEMPTS == 3

IdleBuild == [pc |-> "idle", offset |-> 0, attempts |-> 0, tries |-> 0,
              page |-> <<>>]

\* the pcs of a scan that has set the flag and not yet reset it
ScanPcs == {"acquire", "fetch", "merge", "persist", "backoff"}

\* the raw keys of the tracks of a page
PageKeys(page) ==
    {RawKey(Item(page[i]).title, Item(page[i]).artist, Item(page[i]).album) :
        i \in 1..Len(page)}

BuildStart_NoFlag(b) ==
    /\ bt[b].pc \in {"idle", "done", "skipped"}
    /\ cache_building' = TRUE
    /\ bt' = [bt EXCEPT ![b] = [IdleBuild EXCEPT !.pc = "acquire"]]
    /\ UNCHANGED <<varsMB, cacheVars, plex_mbid_index, cache_lock, confVars, auxVars,
                   plex_cache, cc, likedVars, plex_level, last_call, mt, syncVars>>

\* the function is entered: under cache_building_lock (no await inside), a
\* scan in progress makes it return, otherwise the flag is set; offset = 0
BuildStart(b) ==
    /\ bt[b].pc \in {"idle", "done", "skipped"}
    /\ IF cache_building
       THEN /\ bt' = [bt EXCEPT ![b] = [IdleBuild EXCEPT !.pc = "skipped"]]
            /\ UNCHANGED cache_building
       ELSE /\ cache_building' = TRUE
            /\ bt' = [bt EXCEPT ![b] = [IdleBuild EXCEPT !.pc = "acquire"]]
    /\ UNCHANGED <<varsMB, cacheVars, plex_mbid_index, cache_lock, confVars, auxVars,
                   plex_cache, cc, likedVars, plex_level, last_call, mt, syncVars>>

\* fetch_plex_tracks, one attempt: await _acquire_rate_limit()
BuildAcquire(b) ==
    /\ bt[b].pc = "acquire"
    /\ plex_level + 1 <= MAX_RATE
    /\ plex_level' = plex_level + 1
    /\ bt' = [bt EXCEPT ![b].pc = "fetch"]
    /\ UNCHANGED <<varsMB, cacheVars, plex_mbid_index, cache_lock, confVars, auxVars,
                   cache_building, plex_cache, cc, likedVars, last_call, mt,
                   syncVars>>

\* what follows an attempt that raised: the next attempt, or after the last
\* one the RetryError that the loop catches
AfterFailure(build) ==
    IF build.attempts + 1 < FETCH_ATTEMPTS
    THEN [build EXCEPT !.pc = "acquire", !.attempts = @ + 1, !.tries = @ + 1]
    ELSE [build EXCEPT !.pc = "backoff", !.attempts = 0, !.tries = @ + 1]

\* fetch_plex_tracks, one attempt: plex.library.search of the page at offset.
\* An empty page ends the loop, and the finally clause resets the flag
BuildFetch(b, outcome) ==
    /\ bt[b].pc = "fetch"
    /\ bt[b].tries < MaxFetches
    /\ last_call' = [op |-> "library.search", slot |-> TRUE]
    /\ LET page == LibraryPage(bt[b].offset, PageLimit)
       IN  IF outcome = "error"
           THEN /\ bt' = [bt EXCEPT ![b] = AfterFailure(bt[b])]
                /\ UNCHANGED cache_building
           ELSE IF page = <<>>
           THEN /\ bt' = [bt EXCEPT ![b] = [@ EXCEPT !.pc = "done", !.tries = @ + 1]]
                /\ cache_building' = FALSE
           ELSE /\ bt' = [bt EXCEPT ![b] = [@ EXCEPT !.pc = "merge", !.page = page,
                                                     !.attempts = 0, !.tries = @ + 1]]
                /\ UNCHANGED cache_building
    /\ UNCHANGED <<varsMB, cacheVars, plex_mbid_index, cache_lock, confVars, auxVars,
                   plex_cache, cc, likedVars, plex_level, mt, syncVars>>

\* except Exception: the error is logged, sleep(2.0), continue
BuildBackoff(b) ==
    /\ bt[b].pc = "backoff"
    /\ bt' = [bt EXCEPT ![b].pc = "acquire"]
    /\ UNCHANGED <<varsMB, cacheVars, plex_mbid_index, cache_lock, confVars, auxVars,
                   cache_building, plex_cache, cc, likedVars, plex_level,
                   last_call, mt, syncVars>>

\* a merge that leaves the derived indexes to a later rebuild
BuildMerge_RawOnly(b) ==
    /\ bt[b].pc = "merge"
    /\ cache_lock = Free
    /\ plex_tracks_cache' = MergeRaw(plex_tracks_cache, bt[b].page)
    /\ plex_mbid_index' = MergeMbids(plex_mbid_index, bt[b].page)
    /\ bt' = [bt EXCEPT ![b] = [@ EXCEPT !.pc = "persist",
                                         !.offset = @ + PageLimit, !.tries = 0]]
    /\ UNCHANGED <<varsMB, plex_tracks_cache_index, plex_lookup_full, plex_lookup_partial,
                   plex_partial_duration_index, plex_artist_index, plex_duration_index,
                   cache_lock, confVars, auxVars, cache_building, plex_cache, cc,
                   likedVars, plex_level, last_call, mt, syncVars>>

\* under cache_lock: the page goes into the raw map and the MBID index, the
\* derived indexes are rebuilt; then offset += limit
BuildMerge(b) ==
    /\ bt[b].pc = "merge"
    /\ cache_lock = Free
    /\ LET cache == MergeRaw(plex_tracks_cache, bt[b].page)
           values == CacheValues(cache)
       IN  /\ plex_tracks_cache' = cache
           /\ plex_tracks_cache_index' = CacheIndexOf(values)
           /\ IF extended_cache_enabled
              THEN /\ plex_lookup_full' = LookupFullOf(values)
                   /\ plex_lookup_partial' = LookupPartialOf(values)
                   /\ plex_partial_duration_index' = PartialDurationIndexOf(values)
                   /\ plex_artist_index' = ArtistIndexOf(values)
                   /\ plex_duration_index' = DurationIndexOf(values)
              ELSE UNCHANGED <<plex_lookup_full, plex_lookup_partial,
                               plex_partial_duration_index, plex_artist_index,
                               plex_duration_index>>
    /\ plex_mbid_index' = MergeMbids(plex_mbid_index, bt[b].page)
    /\ bt' = [bt EXCEPT ![b] = [@ EXCEPT !.pc = "persist",
                                         !.offset = @ + PageLimit, !.tries = 0]]
    /\ UNCHANGED <<varsMB, cache_lock, confVars, auxVars, cache_building, plex_cache, cc,
                   likedVars, plex_level, last_call, mt, syncVars>>

\* _update_db_cache_bulk(new_items) and save_plex_mbids_bulk(mbid_entries),
\* then sleep(0.5) and the next page; an exception of the database is caught
\* like one of the fetch
BuildPersist(b, outcome) ==
    /\ bt[b].pc = "persist"
    /\ IF outcome = "error"
       THEN /\ bt' = [bt EXCEPT ![b] = [@ EXCEPT !.pc = "backoff", !.page = <<>>]]
            /\ UNCHANGED <<plex_cache, plex_mbid_table>>
       ELSE /\ bt' = [bt EXCEPT ![b] = [@ EXCEPT !.pc = "acquire", !.page = <<>>]]
            /\ plex_cache' = plex_cache \cup PageKeys(bt[b].page)
            /\ plex_mbid_table' = TableMerge(plex_mbid_table, bt[b].page)
    /\ UNCHANGED <<deepVars, varsMB, cacheVars, plex_mbid_index, cache_lock, confVars,
                   deleted_count, mb_limiter, mbq, scored_mbids, registry, boot,
                   cache_building, cc, likedVars, plex_level, last_call, mt,
                   syncVars>>

-----------------------------------------------------------------------------
(* clear_cache *)

\* async with cache_lock: plex_tracks_cache.clear()
ClearLocked ==
    /\ cc \in {"idle", "done", "raised"}
    /\ cache_lock = Free
    /\ plex_tracks_cache' = <<>>
    /\ cc' = "delete"
    /\ UNCHANGED <<varsMB, plex_tracks_cache_index, plex_lookup_full,
                   plex_lookup_partial, plex_partial_duration_index,
                   plex_artist_index, plex_duration_index, plex_mbid_index,
                   cache_lock, confVars, auxVars, cache_building, bt, plex_cache,
                   likedVars, plex_level, last_call, mt, syncVars>>

\* DELETE FROM plex_cache, commit; an exception of the database leaves the
\* function
ClearDelete(outcome) ==
    /\ cc = "delete"
    /\ IF outcome = "error"
       THEN cc' = "raised" /\ UNCHANGED plex_cache
       ELSE cc' = "done" /\ plex_cache' = {}
    /\ UNCHANGED <<varsMB, cacheVars, plex_mbid_index, cache_lock, confVars, auxVars,
                   cache_building, bt, likedVars, plex_level, last_call, mt,
                   syncVars>>

-----------------------------------------------------------------------------
(* load_cache_from_db: the tables are read back at startup *)

\* the characters of a normalized MBID, in the order of their code points
MbidAlphabet ==
    <<"-", "0", "1", "2", "3", "4", "5", "6", "7", "8", "9", "a", "b", "c", "d",
      "e", "f", "g", "h", "i", "j", "k", "l", "m", "n", "o", "p", "q", "r", "s",
      "t", "u", "v", "w", "x", "y", "z">>

\* a < b or a = b as Python compares two str
RECURSIVE StrLessEq(_, _)
StrLessEq(a, b) ==
    IF a = <<>> THEN TRUE
    ELSE IF b = <<>> THEN FALSE
    ELSE IF Head(a) = Head(b) THEN StrLessEq(Tail(a), Tail(b))
    ELSE IndexOf(MbidAlphabet, Head(a)) < IndexOf(MbidAlphabet, Head(b))

\* _get_primary_mbid: sorted(mbids)[0], or None
_get_primary_mbid(rk) ==
    LET mbids == _extract_mbids_from_track(rk)
    IN  IF mbids = <<>> THEN NoneStr
        ELSE mbids[CHOOSE i \in 1..Len(mbids) :
                     \A j \in 1..Len(mbids) : StrLessEq(mbids[i], mbids[j])]

\* the item a row of plex_cache was written from
RowItem(key) ==
    CHOOSE rk \in RatingKeys : RawKey(Item(rk).title, Item(rk).artist, Item(rk).album) = key

\* the orders in which a SELECT without ORDER BY may return the rows: any
RowOrders(rows) ==
    {order \in [1..Cardinality(rows) -> rows] :
        \A i, j \in 1..Cardinality(rows) : i # j => order[i] # order[j]}

IdleBoot == [pc |-> "idle", rows |-> <<>>]

\* SELECT ... FROM plex_cache; rows = await cursor.fetchall()
LoadSelect(order) ==
    /\ boot.pc = "idle"
    /\ order \in RowOrders(plex_cache)
    /\ boot' = [pc |-> "locked", rows |-> MapSeq(order, RowItem)]
    /\ UNCHANGED <<deepVars, varsMB, plexSide, deleted_count, mb_limiter, mbq, scored_mbids,
                   registry, plex_mbid_table>>

\* the loop over the rows: plex_mbid_index[mbid] = {plex_id, track_key, track}
\* for every row with an mbid, whatever the index held
RECURSIVE LoadMbids(_, _)
LoadMbids(index, rows) ==
    IF rows = <<>> THEN index
    ELSE LET t == Item(Head(rows))
             raw == _get_primary_mbid(Head(rows))
             mbid == IF raw = NoneStr THEN NoneStr ELSE _normalize_mbid(raw)
         IN  LoadMbids(IF mbid = NoneStr THEN index
                       ELSE Put(index, mbid,
                                [plex_id |-> Head(rows),
                                 track_key |-> RawKey(t.title, t.artist, t.album),
                                 track |-> Head(rows)]),
                       Tail(rows))

\* async with cache_lock: the raw map is built anew from the rows, the MBID
\* index is filled from them, the derived indexes are rebuilt
LoadLocked ==
    /\ boot.pc = "locked"
    /\ cache_lock = Free
    /\ LET cache == MergeRaw(<<>>, boot.rows)
           values == CacheValues(cache)
       IN  /\ plex_tracks_cache' = cache
           /\ plex_tracks_cache_index' = CacheIndexOf(values)
           /\ IF extended_cache_enabled
              THEN /\ plex_lookup_full' = LookupFullOf(values)
                   /\ plex_lookup_partial' = LookupPartialOf(values)
                   /\ plex_partial_duration_index' = PartialDurationIndexOf(values)
                   /\ plex_artist_index' = ArtistIndexOf(values)
                   /\ plex_duration_index' = DurationIndexOf(values)
              ELSE UNCHANGED <<plex_lookup_full, plex_lookup_partial,
                               plex_partial_duration_index, plex_artist_index,
                               plex_duration_index>>
    /\ plex_mbid_index' = LoadMbids(plex_mbid_index, boot.rows)
    /\ boot' = [boot EXCEPT !.pc = "merge"]
    /\ UNCHANGED <<deepVars, varsMB, cache_lock, confVars, deleted_count, mb_limiter, mbq,
                   scored_mbids, registry, plex_mbid_table, jobVars, plex_level,
                   last_call, mt, syncVars>>

\* the MBIDs of the table that normalize to something
TableMbids(table) ==
    {_normalize_mbid(k) : k \in {x \in DOMAIN table : _normalize_mbid(x) # NoneStr}}

\* the entry the table gives an MBID: no track object
TableEntry(table, mbid) ==
    LET k == CHOOSE x \in DOMAIN table : _normalize_mbid(x) = mbid
    IN  [plex_id |-> table[k].plex_id, track_key |-> table[k].track_key,
         track |-> NoItem]

\* the loop over db_mbid_index: "if normalized_mbid not in plex_mbid_index"
MergeTable_Overwrites(index, table) ==
    [m \in (DOMAIN index) \cup TableMbids(table) |->
        IF m \in TableMbids(table) THEN TableEntry(table, m) ELSE index[m]]

MergeTable(index, table) ==
    [m \in (DOMAIN index) \cup TableMbids(table) |->
        IF m \in DOMAIN index THEN index[m] ELSE TableEntry(table, m)]

\* db_mbid_index = await musicbrainz.load_plex_mbid_index(), merged into the
\* index in memory
LoadMerge ==
    /\ boot.pc = "merge"
    /\ plex_mbid_index' = MergeTable(plex_mbid_index, plex_mbid_table)
    /\ boot' = [boot EXCEPT !.pc = "done"]
    /\ UNCHANGED <<deepVars, varsMB, cacheVars, cache_lock, confVars, deleted_count, mb_limiter,
                   mbq, scored_mbids, registry, plex_mbid_table, jobVars, plex_level,
                   last_call, mt, syncVars>>

-----------------------------------------------------------------------------
(* sync_liked_tracks_to_plex: ratings follow the liked list of a provider *)

\* the liked tracks a provider may report: 101 in another case, 102 as Plex
\* spells it, and a two-word title that resembles nothing
Liked101 == [title |-> <<"y", "e", "s">>, artist |-> <<"a", "b">>,
             album |-> <<"h", "!">>, year |-> <<>>, genre |-> <<>>,
             isrc |-> NoIsrc, duration_ms |-> NoneInt]
Liked102 == [title |-> <<"Y", "e", "s", "t">>, artist |-> <<"A", "b">>,
             album |-> <<"H", "!">>, year |-> <<>>, genre |-> <<>>,
             isrc |-> NoIsrc, duration_ms |-> NoneInt]
LikedNone == [title |-> <<"Q", " ", "q">>, artist |-> <<"Z", "z">>,
              album |-> <<"W", "w">>, year |-> <<>>, genre |-> <<>>,
              isrc |-> NoIsrc, duration_ms |-> NoneInt]

LikedLists == {<<>>, <<Liked101>>, <<LikedNone>>, <<Liked101, LikedNone>>,
               <<Liked102, Liked101>>}

\* nothing is known of a call before the first
NoSync == [current |-> {}, clean |-> FALSE]

\* the locals of one call: previously_synced, current_liked_plex_ids and
\* tracks_to_unrate (todo, with the plex_id the loop is at in cur). rated lists
\* the (ratingKey, rating) of every rate() the call issued, failed tells
\* whether a Plex call of it did not succeed, before is the table liked_tracks
\* as the call found it, first keeps what the call before it ended with, and
\* status is how the latest fetchItem of the loop over tracks_to_unrate ended
IdleLk == [pc |-> "idle", run |-> 0, liked |-> <<>>, before |-> {},
           previously_synced |-> {}, current |-> {}, todo |-> {},
           cur |-> NoItem, rated |-> {}, failed |-> FALSE, first |-> NoSync,
           status |-> ""]

\* the function is entered: an empty list returns at once; otherwise the
\* records of the source are read, the semaphore is made and gather starts one
\* process_track per liked track
LikedEnter(liked, run, first) ==
    /\ pl.pc = "idle"
    /\ \A p \in Tasks : res[p].pc = "idle"
    /\ LET entered == [IdleLk EXCEPT !.run = run, !.liked = liked,
                                     !.before = liked_tracks, !.first = first]
       IN IF liked = <<>>
          THEN /\ lk' = [entered EXCEPT !.pc = "done"]
               /\ mt' = [p \in Tasks |-> IdleTask]
               /\ UNCHANGED semaphore
          ELSE /\ lk' = [entered EXCEPT !.pc = "matching",
                                        !.previously_synced = liked_tracks]
               /\ semaphore' = max_concurrent_workers
               /\ mt' = [p \in Tasks |->
                           IF p \in BatchOf(Len(liked))
                           THEN [IdleTask EXCEPT
                                   !.pc = "sem_wait",
                                   !.track = liked[CHOOSE i \in 1..Len(liked) :
                                                     TaskIds[i] = p]]
                           ELSE IdleTask]
    /\ UNCHANGED <<varsMB, cacheVars, plex_mbid_index, cache_lock, confVars, auxVars,
                   buildVars, liked_tracks, user_rating, plex_level, last_call,
                   stopwatch, max_concurrent_workers, pl, plex_playlist>>

LikedStart(liked) ==
    /\ lk.pc = "idle"
    /\ LikedEnter(liked, 1, NoSync)

\* the next sync of the same source finds the same liked list
LikedAgain ==
    /\ lk.pc = "done"
    /\ lk.run = 1
    /\ LikedEnter(lk.liked, 2, [current |-> lk.current, clean |-> ~lk.failed])

\* process_track without its test of previously_synced
LikedMatched_AlwaysRates(p) ==
    /\ lk.pc = "matching"
    /\ mt[p].pc = "done"
    /\ IF mt[p].result = NoItem
       THEN /\ mt' = [mt EXCEPT ![p].pc = "returned"]
            /\ semaphore' = semaphore + 1
            /\ UNCHANGED lk
       ELSE /\ lk' = [lk EXCEPT !.current = @ \cup {mt[p].result}]
            /\ mt' = [mt EXCEPT ![p].pc = "rate_acquire"]
            /\ UNCHANGED semaphore
    /\ UNCHANGED <<varsMB, cacheVars, plex_mbid_index, cache_lock, confVars, auxVars,
                   buildVars, liked_tracks, user_rating, plex_level, last_call,
                   stopwatch, max_concurrent_workers, pl, plex_playlist>>

\* process_track after _match_single_track returned its pair: no match is
\* logged, a match is added to current_liked_plex_ids and rated unless the
\* source already has its record
LikedMatched(p) ==
    /\ lk.pc = "matching"
    /\ mt[p].pc = "done"
    /\ IF mt[p].result = NoItem
       THEN /\ mt' = [mt EXCEPT ![p].pc = "returned"]
            /\ semaphore' = semaphore + 1
            /\ UNCHANGED lk
       ELSE /\ lk' = [lk EXCEPT !.current = @ \cup {mt[p].result}]
            /\ IF mt[p].result \in lk.previously_synced
               THEN /\ mt' = [mt EXCEPT ![p].pc = "returned"]
                    /\ semaphore' = semaphore + 1
               ELSE /\ mt' = [mt EXCEPT ![p].pc = "rate_acquire"]
                    /\ UNCHANGED semaphore
    /\ UNCHANGED <<varsMB, cacheVars, plex_mbid_index, cache_lock, confVars, auxVars,
                   buildVars, liked_tracks, user_rating, plex_level, last_call,
                   stopwatch, max_concurrent_workers, pl, plex_playlist>>

\* rate_plex_track(plex, plex_track, 10.0): await _acquire_rate_limit()
RateAcquire(p) ==
    /\ mt[p].pc = "rate_acquire"
    /\ plex_level + 1 <= MAX_RATE
    /\ plex_level' = plex_level + 1
    /\ mt' = [mt EXCEPT ![p] = [@ EXCEPT !.pc = "rate_call", !.slot = TRUE]]
    /\ UNCHANGED <<varsMB, cacheVars, plex_mbid_index, cache_lock, confVars, auxVars,
                   jobVars, syncVars, last_call>>

\* full_track.rate(10.0) of an item of the live library: rated, and then its
\* record is saved; any exception makes rate_plex_track return False, which
\* process_track counts and leaves
RateCall(p, outcome) ==
    /\ mt[p].pc = "rate_call"
    /\ last_call' = PlexCall("rate", p)
    /\ IF outcome = "error"
       THEN /\ lk' = [lk EXCEPT !.rated = @ \cup {<<mt[p].result, 10>>},
                                !.failed = TRUE]
            /\ mt' = [mt EXCEPT ![p] = [@ EXCEPT !.pc = "returned", !.slot = FALSE]]
            /\ semaphore' = semaphore + 1
            /\ UNCHANGED user_rating
       ELSE /\ lk' = [lk EXCEPT !.rated = @ \cup {<<mt[p].result, 10>>}]
            /\ mt' = [mt EXCEPT ![p] = [@ EXCEPT !.pc = "save", !.slot = FALSE]]
            /\ user_rating' = [user_rating EXCEPT ![mt[p].result] = 10]
            /\ UNCHANGED semaphore
    /\ UNCHANGED <<varsMB, cacheVars, plex_mbid_index, cache_lock, confVars, auxVars,
                   buildVars, liked_tracks, plex_level, stopwatch,
                   max_concurrent_workers, pl, plex_playlist>>

\* save_synced_liked_track(plex_id, source, track_key); process_track returns
LikedSave(p) ==
    /\ mt[p].pc = "save"
    /\ liked_tracks' = liked_tracks \cup {mt[p].result}
    /\ mt' = [mt EXCEPT ![p].pc = "returned"]
    /\ semaphore' = semaphore + 1
    /\ UNCHANGED <<varsMB, cacheVars, plex_mbid_index, cache_lock, confVars, auxVars,
                   buildVars, user_rating, lk, plex_level, last_call, stopwatch,
                   max_concurrent_workers, pl, plex_playlist>>

\* _match_single_track raised: nothing in process_track catches it, the
\* permit is given back as the exception leaves the task
LikedRaised(p) ==
    /\ lk.pc \in {"matching", "failed"}
    /\ mt[p].pc = "raised"
    /\ mt' = [mt EXCEPT ![p].pc = "failed"]
    /\ semaphore' = semaphore + 1
    /\ UNCHANGED <<varsMB, cacheVars, plex_mbid_index, cache_lock, confVars, auxVars,
                   jobVars, plex_level, last_call, stopwatch,
                   max_concurrent_workers, pl, plex_playlist>>

\* gather (no return_exceptions) hands the exception of a task to
\* sync_liked_tracks_to_plex, which does not catch it either
LikedGatherRaises ==
    /\ lk.pc = "matching"
    /\ \E p \in BatchOf(Len(lk.liked)) : mt[p].pc = "failed"
    /\ lk' = [lk EXCEPT !.pc = "failed", !.failed = TRUE]
    /\ UNCHANGED <<varsMB, cacheVars, plex_mbid_index, cache_lock, confVars, auxVars,
                   buildVars, liked_tracks, user_rating, plex_level, last_call,
                   mt, syncVars>>

AfterUnrate_Stops(call) ==
    [call EXCEPT !.cur = NoItem, !.pc = "done"]

\* the state of the loop over tracks_to_unrate once it is through with cur
AfterUnrate(call) ==
    [call EXCEPT !.todo = @ \ {call.cur}, !.cur = NoItem,
                 !.pc = IF call.todo \ {call.cur} = {} THEN "done" ELSE "unrate"]

\* gather returns: tracks_to_unrate = previously_synced - current_liked_plex_ids
LikedGather ==
    /\ lk.pc = "matching"
    /\ \A p \in BatchOf(Len(lk.liked)) : mt[p].pc = "returned"
    /\ lk' = AfterUnrate([lk EXCEPT !.todo = lk.previously_synced \ lk.current])
    /\ UNCHANGED <<varsMB, cacheVars, plex_mbid_index, cache_lock, confVars, auxVars,
                   buildVars, liked_tracks, user_rating, plex_level, last_call,
                   mt, syncVars>>

\* for plex_id in tracks_to_unrate (a set: any order): await _acquire_rate_limit()
UnrateAcquire(plex_id) ==
    /\ lk.pc = "unrate"
    /\ plex_id \in lk.todo
    /\ plex_level + 1 <= MAX_RATE
    /\ plex_level' = plex_level + 1
    /\ lk' = [lk EXCEPT !.pc = "unrate_fetch", !.cur = plex_id]
    /\ UNCHANGED <<varsMB, cacheVars, plex_mbid_index, cache_lock, confVars, auxVars,
                   buildVars, liked_tracks, user_rating, last_call, mt, syncVars>>

FetchOutcomes == {"ok", "notfound", "error"}

\* plex.fetchItem(plex_id): NotFound removes the record, any other exception
\* is logged and the loop goes on
UnrateFetch(outcome) ==
    /\ lk.pc = "unrate_fetch"
    /\ last_call' = [op |-> "fetchItem", slot |-> TRUE]
    /\ CASE outcome = "ok" ->
              /\ lk' = [lk EXCEPT !.pc = "unrate_acquire", !.status = outcome]
              /\ UNCHANGED liked_tracks
         [] outcome = "notfound" ->
              /\ lk' = AfterUnrate([lk EXCEPT !.failed = TRUE, !.status = outcome])
              /\ liked_tracks' = liked_tracks \ {lk.cur}
         [] outcome = "error" ->
              /\ lk' = AfterUnrate([lk EXCEPT !.failed = TRUE, !.status = outcome])
              /\ UNCHANGED liked_tracks
    /\ UNCHANGED <<varsMB, cacheVars, plex_mbid_index, cache_lock, confVars, auxVars,
                   buildVars, user_rating, plex_level, mt, syncVars>>

\* rate_plex_track(plex, plex_track, 0.0): await _acquire_rate_limit()
UnrateRateAcquire ==
    /\ lk.pc = "unrate_acquire"
    /\ plex_level + 1 <= MAX_RATE
    /\ plex_level' = plex_level + 1
    /\ lk' = [lk EXCEPT !.pc = "unrate_rate"]
    /\ UNCHANGED <<varsMB, cacheVars, plex_mbid_index, cache_lock, confVars, auxVars,
                   buildVars, liked_tracks, user_rating, last_call, mt, syncVars>>

\* a revocation that removes the record whatever rate_plex_track returned
UnrateRate_AlwaysRemoves(outcome) ==
    /\ lk.pc = "unrate_rate"
    /\ last_call' = [op |-> "rate", slot |-> TRUE]
    /\ liked_tracks' = liked_tracks \ {lk.cur}
    /\ IF outcome = "error"
       THEN /\ lk' = AfterUnrate([lk EXCEPT !.rated = @ \cup {<<lk.cur, 0>>},
                                            !.failed = TRUE])
            /\ UNCHANGED user_rating
       ELSE /\ lk' = AfterUnrate([lk EXCEPT !.rated = @ \cup {<<lk.cur, 0>>}])
            /\ user_rating' = [user_rating EXCEPT ![lk.cur] = 0]
    /\ UNCHANGED <<varsMB, cacheVars, plex_mbid_index, cache_lock, confVars, auxVars,
                   buildVars, plex_level, mt, syncVars>>

\* full_track.rate(0.0), and on success remove_synced_liked_track(plex_id,
\* source); on False the record stays
UnrateRate(outcome) ==
    /\ lk.pc = "unrate_rate"
    /\ last_call' = [op |-> "rate", slot |-> TRUE]
    /\ IF outcome = "error"
       THEN /\ lk' = AfterUnrate([lk EXCEPT !.rated = @ \cup {<<lk.cur, 0>>},
                                            !.failed = TRUE])
            /\ UNCHANGED <<liked_tracks, user_rating>>
       ELSE /\ lk' = AfterUnrate([lk EXCEPT !.rated = @ \cup {<<lk.cur, 0>>}])
            /\ user_rating' = [user_rating EXCEPT ![lk.cur] = 0]
            /\ liked_tracks' = liked_tracks \ {lk.cur}
    /\ UNCHANGED <<varsMB, cacheVars, plex_mbid_index, cache_lock, confVars, auxVars,
                   buildVars, plex_level, mt, syncVars>>

-----------------------------------------------------------------------------
(* The duration buckets under a configured width *)

\* the widths a user may configure, in seconds; 0 stands for none given
MaxBucketSeconds == 6

\* the durations compared: from two minutes on, second by second
MaxSpanSeconds == 12
DurationsMs == {1000 * (120 + x) : x \in 0..MaxSpanSeconds}

\* max(1, user_inputs.plex_duration_bucket_seconds or 5)
ConfiguredBucketSeconds(seconds) ==
    IF seconds = 0 THEN 5 ELSE IF seconds < 1 THEN 1 ELSE seconds

\* DURATION_TOLERANCE_MS = max(5000, duration_bucket_seconds * 1000)
ToleranceOf(seconds) == IF seconds * 1000 > 5000 THEN seconds * 1000 ELSE 5000

\* _get_duration_bucket under a width
DurationBucketOf(duration_ms, seconds) ==
    IF duration_ms = NoneInt THEN NoneInt
    ELSE IF seconds <= 0 THEN NoneInt
    ELSE duration_ms \div (seconds * 1000)

\* the two globals as the module sets them, and no comparison made
IdleBk == [duration_bucket_seconds |-> duration_bucket_seconds,
           DURATION_TOLERANCE_MS |-> DURATION_TOLERANCE_MS,
           track_ms |-> NoneInt, candidate_ms |-> NoneInt,
           inspected |-> FALSE, accepted |-> FALSE]

\* stage 4 for a track and one cached track of the same partial key, which
\* _rebuild_extended_indexes has filed under its bucket: the candidate is
\* inspected if its bucket is one of b - 1, b, b + 1, and an inspected
\* candidate is accepted if the durations differ by no more than the tolerance
DurationPrefilter(track_ms, candidate_ms) ==
    /\ LET b == DurationBucketOf(track_ms, bk.duration_bucket_seconds)
           inspected == DurationBucketOf(candidate_ms, bk.duration_bucket_seconds)
                            \in {b - 1, b, b + 1}
       IN  bk' = [bk EXCEPT !.track_ms = track_ms, !.candidate_ms = candidate_ms,
                            !.inspected = inspected,
                            !.accepted = inspected
                                /\ ~(Abs(candidate_ms - track_ms) > bk.DURATION_TOLERANCE_MS)]
    /\ UNCHANGED <<varsMB, plexSide, aux1Vars, ic, inflight, sk, liked_elsewhere>>

-----------------------------------------------------------------------------
(* initialize_cache: the configuration is taken over, then the startup work *)

\* the user_inputs initialize_cache is called with; a TTL of 0 is falsy
InitInputs ==
    [musicbrainz_enabled : BOOLEAN,
     plex_extended_cache_enabled : BOOLEAN,
     plex_duration_bucket_seconds : 0..MaxBucketSeconds,
     musicbrainz_cache_ttl_days : {0, 30, 90},
     musicbrainz_negative_cache_ttl_days : {0, 1, 7}]

\* no initialize_cache so far; os.environ holds neither key
IdleInit == [pc |-> "idle", user_inputs |-> [musicbrainz_enabled |-> TRUE,
                                             plex_extended_cache_enabled |-> TRUE,
                                             plex_duration_bucket_seconds |-> 0,
                                             musicbrainz_cache_ttl_days |-> 0,
                                             musicbrainz_negative_cache_ttl_days |-> 0],
             environ |-> [MUSICBRAINZ_CACHE_TTL_DAYS |-> NoneInt,
                          MUSICBRAINZ_NEGATIVE_CACHE_TTL_DAYS |-> NoneInt],
             scan_task |-> FALSE]

\* the assignments up to the first await: the globals of plex.py, and
\* os.environ for each TTL that is truthy. MUSICBRAINZ_CACHE_TTL_DAYS and
\* MUSICBRAINZ_NEGATIVE_CACHE_TTL_DAYS of musicbrainz.py were read from the
\* environment when the module was imported, and are not assigned here
InitializeCache(user_inputs) ==
    /\ ic.pc = "idle"
    /\ boot.pc = "idle"
    /\ \A p \in Tasks : res[p].pc = "idle"
    /\ musicbrainz_enabled' = user_inputs.musicbrainz_enabled
    /\ extended_cache_enabled' = user_inputs.plex_extended_cache_enabled
    /\ bk' = [IdleBk EXCEPT
                !.duration_bucket_seconds =
                    ConfiguredBucketSeconds(user_inputs.plex_duration_bucket_seconds),
                !.DURATION_TOLERANCE_MS =
                    ToleranceOf(ConfiguredBucketSeconds(
                                    user_inputs.plex_duration_bucket_seconds))]
    /\ ic' = [ic EXCEPT
                !.pc = "load",
                !.user_inputs = user_inputs,
                !.environ = [MUSICBRAINZ_CACHE_TTL_DAYS |->
                                IF user_inputs.musicbrainz_cache_ttl_days # 0
                                THEN user_inputs.musicbrainz_cache_ttl_days
                                ELSE @.MUSICBRAINZ_CACHE_TTL_DAYS,
                             MUSICBRAINZ_NEGATIVE_CACHE_TTL_DAYS |->
                                IF user_inputs.musicbrainz_negative_cache_ttl_days # 0
                                THEN user_inputs.musicbrainz_negative_cache_ttl_days
                                ELSE @.MUSICBRAINZ_NEGATIVE_CACHE_TTL_DAYS]]
    /\ UNCHANGED <<varsMB, cacheVars, plex_mbid_index, cache_lock, jobVars, plex_level,
                   last_call, mt, syncVars, aux1Vars, inflight, sk, liked_elsewhere>>

\* await load_cache_from_db() has returned; if musicbrainz_enabled:
\* await musicbrainz.cleanup_expired_cache()
InitSweep ==
    /\ ic.pc = "load"
    /\ boot.pc = "done"
    /\ ic' = [ic EXCEPT !.pc = "scan"]
    /\ IF musicbrainz_enabled
       THEN /\ isrc_mbid_cache' = isrc_mbid_cache \ ExpiredRows(isrc_mbid_cache, now)
            /\ deleted_count' = Cardinality(ExpiredRows(isrc_mbid_cache, now))
       ELSE UNCHANGED <<isrc_mbid_cache, deleted_count>>
    /\ UNCHANGED <<now, res, bq, plexSide, mb_limiter, mbq, scored_mbids, registry,
                   plex_mbid_table, boot, inflight, sk, bk, liked_elsewhere>>

\* if not plex_tracks_cache: asyncio.create_task(fetch_and_cache_tracks(plex))
InitScan ==
    /\ ic.pc = "scan"
    /\ ic' = [ic EXCEPT !.pc = "done", !.scan_task = (plex_tracks_cache = <<>>)]
    /\ UNCHANGED <<varsMB, plexSide, aux1Vars, inflight, sk, bk, liked_elsewhere>>


-----------------------------------------------------------------------------
(* The batches of the process side by side: each call makes its own semaphore *)

\* the calls that fan out matches and may run at the same time: the
\* _get_available_plex_tracks of a playlist sync, and sync_liked_tracks_to_plex
BatchIds == {"playlist", "liked"}

\* the tracks of one batch
MaxBatchTracks == 3

IdleBatch == [pc |-> "idle", semaphore |-> 0, waiting |-> 0, matching |-> 0]

IdleBatches == [b \in BatchIds |-> IdleBatch]

\* semaphore = asyncio.Semaphore(max_concurrent_workers), a local of the call;
\* asyncio.gather schedules one match_track / process_track per track
FanOutStart(b, n) ==
    /\ inflight[b].pc = "idle"
    /\ inflight' = [inflight EXCEPT ![b] = [pc |-> "gather",
                                            semaphore |-> max_concurrent_workers,
                                            waiting |-> n, matching |-> 0]]
    /\ UNCHANGED <<varsMB, plexSide, aux1Vars, ic, sk, bk, liked_elsewhere>>

\* async with semaphore: a task of the batch enters and awaits
\* _match_single_track
FanOutEnter(b) ==
    /\ inflight[b].pc = "gather"
    /\ inflight[b].waiting > 0
    /\ inflight[b].semaphore > 0
    /\ inflight' = [inflight EXCEPT ![b] = [@ EXCEPT !.semaphore = @ - 1,
                                                    !.waiting = @ - 1,
                                                    !.matching = @ + 1]]
    /\ UNCHANGED <<varsMB, plexSide, aux1Vars, ic, sk, bk, liked_elsewhere>>

\* the match of a task has returned and the task leaves the block
FanOutExit(b) ==
    /\ inflight[b].pc = "gather"
    /\ inflight[b].matching > 0
    /\ inflight' = [inflight EXCEPT ![b] = [@ EXCEPT !.semaphore = @ + 1,
                                                    !.matching = @ - 1]]
    /\ UNCHANGED <<varsMB, plexSide, aux1Vars, ic, sk, bk, liked_elsewhere>>

\* asyncio.gather returns once every task has
FanOutGathered(b) ==
    /\ inflight[b].pc = "gather"
    /\ inflight[b].waiting = 0
    /\ inflight[b].matching = 0
    /\ inflight' = [inflight EXCEPT ![b] = IdleBatch]
    /\ UNCHANGED <<varsMB, plexSide, aux1Vars, ic, sk, bk, liked_elsewhere>>

-----------------------------------------------------------------------------
(* The awaits of the scan, the matches and the sync of liked tracks: who
   waits for which lock, semaphore or slot, without the data they move *)

\* the matches of a playlist batch, the match of a liked track (followed by
\* the rest of sync_liked_tracks_to_plex), and the scan
PlaylistMatches == {"p1", "p2"}
LikedMatches == {"l1"}
Matches == PlaylistMatches \cup LikedMatches
TheScan == "scan"
Awaiters == Matches \cup {TheScan}

\* the requests per second plex_rate_limiter is configured with, the pages
\* of the library, the MBIDs of one ISRC and the ratings to revoke
MaxSlots == 1
MaxPages == 1
MaxMbids == 1
MaxUnrate == 1

\* the calls of search_and_score in _match_single_track
SEARCH_ROUNDS == 4

\* the tracks that are matched: one of the playlist carries an ISRC
HasIsrc == [t \in Matches |-> t = "p1"]

\* the call of search_and_score that finds the track at the latest, if no
\* call raises: the track with the ISRC may stay missing after all of them
LastRound == [t \in Matches |-> IF t = "p1" THEN SEARCH_ROUNDS + 1 ELSE 1]

SemaphoreOf(t) == IF t \in LikedMatches THEN "liked" ELSE "playlist"

IdleSk ==
    [pc |-> [t \in Awaiters |-> "start"],
     cache_lock |-> "free",
     cache_building |-> FALSE,
     semaphore |-> [b \in {"playlist", "liked"} |-> 0],
     plex_rate_limiter |-> 0,
     offset |-> 0,
     round |-> [t \in Matches |-> 0],
     mbids |-> [t \in Matches |-> 0],
     left |-> [t \in Matches |-> 0],
     unrate |-> 0]

OnlyAwaits == UNCHANGED <<varsMB, plexSide, aux1Vars, ic, inflight, bk, liked_elsewhere>>

\* where a task goes once _acquire_rate_limit has returned
CallOf ==
    [isrc_rate |-> "isrc_call", mbid_rate |-> "mbid_fetch",
     guid_rate |-> "guid_call", live_rate |-> "live_call",
     rate_rate |-> "rate_call", unrate_rate |-> "unrate_fetch",
     unrate_rate2 |-> "unrate_call", fetch_rate |-> "fetch_call"]

RateWaits == DOMAIN CallOf
LockWaits == {"mbid_lock", "exact_lock", "search_lock", "merge_lock"}

\* `async with semaphore` is left and the locals of the match are gone: a
\* playlist match is over, the match of a liked track goes on as the rest of
\* the sync after the gather
Leave(s, t) ==
    [s EXCEPT !.semaphore[SemaphoreOf(t)] = @ - 1,
              !.round[t] = 0, !.mbids[t] = 0, !.left[t] = 0,
              !.pc[t] = IF t \in LikedMatches THEN "gathered" ELSE "done"]

\* _match_single_track returns a track or the missing track
Returned(s, t, found) ==
    IF found /\ t \in LikedMatches
    THEN [s EXCEPT !.round[t] = 0, !.mbids[t] = 0, !.left[t] = 0, !.pc[t] = "matched"]
    ELSE Leave(s, t)

\* `async with semaphore`, then Stage 0 if the track has an ISRC
SemaphoreEnter(t) ==
    /\ t \in Matches
    /\ sk.pc[t] = "start"
    /\ sk.semaphore[SemaphoreOf(t)] < max_concurrent_workers
    /\ sk' = [sk EXCEPT !.semaphore[SemaphoreOf(t)] = @ + 1,
                         !.pc[t] = IF HasIsrc[t] THEN "isrc_rate" ELSE "exact_lock"]
    /\ OnlyAwaits

\* _acquire_rate_limit: a slot of plex_rate_limiter is taken
RateLimitAcquire(t) ==
    /\ sk.pc[t] \in RateWaits
    /\ sk.plex_rate_limiter < MaxSlots
    /\ sk' = [sk EXCEPT !.plex_rate_limiter = @ + 1, !.pc[t] = CallOf[sk.pc[t]]]
    /\ OnlyAwaits

\* the bucket of plex_rate_limiter leaks with time
RateLimitLeak ==
    /\ sk.plex_rate_limiter > 0
    /\ sk' = [sk EXCEPT !.plex_rate_limiter = @ - 1]
    /\ OnlyAwaits

\* Stage 0: the search by ISRC returns
IsrcSearchReturns(t) ==
    /\ t \in Matches
    /\ sk.pc[t] = "isrc_call"
    /\ \E outcome \in {"hit", "miss", "raise"} :
        sk' = IF outcome = "hit"
              THEN Returned(sk, t, TRUE)
              ELSE [sk EXCEPT !.pc[t] = IF musicbrainz_enabled THEN "mb_resolve"
                                        ELSE "exact_lock"]
    /\ OnlyAwaits

\* _match_via_mbid_proxy: get_mbids_for_isrc returns the candidates
MbidsResolved(t) ==
    /\ t \in Matches
    /\ sk.pc[t] = "mb_resolve"
    /\ \E n \in 0..MaxMbids :
        sk' = IF n = 0
              THEN [sk EXCEPT !.pc[t] = "exact_lock"]
              ELSE [sk EXCEPT !.pc[t] = "mbid_lock", !.mbids[t] = n, !.left[t] = n]
    /\ OnlyAwaits

\* `async with cache_lock` around the loop over the candidates
MbidLockAcquire(t) ==
    /\ t \in Matches
    /\ sk.pc[t] = "mbid_lock"
    /\ sk.cache_lock = "free"
    /\ sk' = [sk EXCEPT !.cache_lock = t, !.pc[t] = "mbid_loop"]
    /\ OnlyAwaits

\* the candidates still to look at after one more, under the lock: the
\* loop goes on, or the lock is left for the fallback searches
NextCandidate(s, t) ==
    IF s.left[t] > 1
    THEN [s EXCEPT !.left[t] = @ - 1, !.pc[t] = "mbid_loop"]
    ELSE [s EXCEPT !.left[t] = s.mbids[t], !.cache_lock = "free", !.pc[t] = "guid_rate"]

\* one candidate against plex_mbid_index: not there, there with its track,
\* or there with its plex_id alone, which is fetched before the lock is left
MbidLoopStep(t) ==
    /\ t \in Matches
    /\ sk.pc[t] = "mbid_loop"
    /\ sk.cache_lock = t
    /\ \E entry \in {"absent", "track", "plex_id"} :
        sk' = CASE entry = "absent" -> NextCandidate(sk, t)
                [] entry = "track" ->
                     Returned([sk EXCEPT !.cache_lock = "free"], t, TRUE)
                [] entry = "plex_id" -> [sk EXCEPT !.pc[t] = "mbid_rate"]
    /\ OnlyAwaits

\* the mutant returns the fetched track without leaving cache_lock
MbidFetchReturns_KeepsLock(t) ==
    /\ t \in Matches
    /\ sk.pc[t] = "mbid_fetch"
    /\ sk.cache_lock = t
    /\ \E outcome \in {"track", "none", "raise"} :
        sk' = IF outcome = "track"
              THEN Returned(sk, t, TRUE)
              ELSE NextCandidate(sk, t)
    /\ OnlyAwaits

\* plex.fetchItem returns to the holder of cache_lock
MbidFetchReturns(t) ==
    /\ t \in Matches
    /\ sk.pc[t] = "mbid_fetch"
    /\ sk.cache_lock = t
    /\ \E outcome \in {"track", "none", "raise"} :
        sk' = IF outcome = "track"
              THEN Returned([sk EXCEPT !.cache_lock = "free"], t, TRUE)
              ELSE NextCandidate(sk, t)
    /\ OnlyAwaits

\* the fallback search by GUID of one candidate returns
GuidSearchReturns(t) ==
    /\ t \in Matches
    /\ sk.pc[t] = "guid_call"
    /\ \E outcome \in {"hit", "miss", "raise"} :
        sk' = IF outcome = "hit"
              THEN Returned(sk, t, TRUE)
              ELSE IF sk.left[t] > 1
                   THEN [sk EXCEPT !.left[t] = @ - 1, !.pc[t] = "guid_rate"]
                   ELSE [sk EXCEPT !.mbids[t] = 0, !.left[t] = 0, !.pc[t] = "exact_lock"]
    /\ OnlyAwaits

\* Stage 1: the raw key is looked up under cache_lock, which is left
\* before the next await
ExactUnderLock(t) ==
    /\ t \in Matches
    /\ sk.pc[t] = "exact_lock"
    /\ sk.cache_lock = "free"
    /\ \E hit \in BOOLEAN :
        sk' = IF hit
              THEN Returned(sk, t, TRUE)
              ELSE [sk EXCEPT !.round[t] = 1, !.pc[t] = "search_lock"]
    /\ OnlyAwaits

\* search_and_score: the candidates are taken under cache_lock and scored
CandidatesUnderLock(t) ==
    /\ t \in Matches
    /\ sk.pc[t] = "search_lock"
    /\ sk.cache_lock = "free"
    /\ \E outcome \in {"scored", "below", "raise"} :
        sk' = CASE outcome = "scored" -> Returned(sk, t, TRUE)
                [] outcome = "below" -> [sk EXCEPT !.pc[t] = "live_rate"]
                [] outcome = "raise" -> Leave(sk, t)
    /\ OnlyAwaits

\* the live search of search_and_score returns; without a match the next
\* call of search_and_score follows, the second one only for a title of
\* more than one word
LiveSearchReturns(t) ==
    /\ t \in Matches
    /\ sk.pc[t] = "live_call"
    /\ \E outcome \in {"found", "none", "raise"}, words \in BOOLEAN :
        /\ outcome = "none" => sk.round[t] < LastRound[t]
        /\ sk' = CASE outcome = "found" -> Returned(sk, t, TRUE)
                   [] outcome = "raise" -> Leave(sk, t)
                   [] outcome = "none" ->
                         IF sk.round[t] = SEARCH_ROUNDS
                         THEN Returned(sk, t, FALSE)
                         ELSE [sk EXCEPT !.round[t] = IF @ = 1 /\ ~words THEN 3 ELSE @ + 1,
                                        !.pc[t] = "search_lock"]
    /\ OnlyAwaits

\* process_track: a matched liked track is rated unless it was synced, and
\* rate_plex_track returns inside the semaphore
ProcessTrack(t) ==
    /\ t \in LikedMatches
    /\ \/ /\ sk.pc[t] = "matched"
          /\ \E synced \in BOOLEAN :
              sk' = IF synced THEN Leave(sk, t) ELSE [sk EXCEPT !.pc[t] = "rate_rate"]
       \/ /\ sk.pc[t] = "rate_call"
          /\ sk' = Leave(sk, t)
    /\ OnlyAwaits

\* after the gather the ratings to revoke, each by fetchItem and then
\* rate_plex_track
Revocation(t) ==
    /\ t \in LikedMatches
    /\ \/ /\ sk.pc[t] = "gathered"
          /\ \E n \in 0..MaxUnrate :
              sk' = [sk EXCEPT !.unrate = n,
                               !.pc[t] = IF n = 0 THEN "done" ELSE "unrate_rate"]
       \/ /\ sk.pc[t] = "unrate_fetch"
          /\ \E outcome \in {"track", "raise"} :
              sk' = IF outcome = "track"
                    THEN [sk EXCEPT !.pc[t] = "unrate_rate2"]
                    ELSE [sk EXCEPT !.unrate = @ - 1,
                                    !.pc[t] = IF sk.unrate > 1 THEN "unrate_rate"
                                              ELSE "done"]
       \/ /\ sk.pc[t] = "unrate_call"
          /\ sk' = [sk EXCEPT !.unrate = @ - 1,
                              !.pc[t] = IF sk.unrate > 1 THEN "unrate_rate" ELSE "done"]
    /\ OnlyAwaits

\* fetch_and_cache_tracks: the flag is read and set under
\* cache_building_lock, which has no await inside
ScanFlagged ==
    /\ sk.pc[TheScan] = "start"
    /\ sk' = IF sk.cache_building
             THEN [sk EXCEPT !.pc[TheScan] = "done"]
             ELSE [sk EXCEPT !.cache_building = TRUE, !.pc[TheScan] = "fetch_rate"]
    /\ OnlyAwaits

\* fetch_plex_tracks returns a page, the empty page or raises
ScanFetchReturns ==
    /\ sk.pc[TheScan] = "fetch_call"
    /\ \E outcome \in {"page", "empty", "raise"} :
        /\ outcome = "page" => sk.offset < MaxPages
        /\ outcome = "empty" => sk.offset = MaxPages
        /\ sk' = [sk EXCEPT !.pc[TheScan] =
                     CASE outcome = "page" -> "merge_lock"
                       [] outcome = "empty" -> "final"
                       [] outcome = "raise" -> "sleep"]
    /\ OnlyAwaits

\* the page is merged under cache_lock, which has no await inside; then the
\* page is persisted
ScanMergeUnderLock ==
    /\ sk.pc[TheScan] = "merge_lock"
    /\ sk.cache_lock = "free"
    /\ sk' = [sk EXCEPT !.offset = @ + 1, !.pc[TheScan] = "sleep"]
    /\ OnlyAwaits

\* asyncio.sleep returns and the loop goes on
ScanSleepReturns ==
    /\ sk.pc[TheScan] = "sleep"
    /\ sk' = [sk EXCEPT !.pc[TheScan] = "fetch_rate"]
    /\ OnlyAwaits

\* finally: the flag is reset under cache_building_lock
ScanFinally ==
    /\ sk.pc[TheScan] = "final"
    /\ sk' = [sk EXCEPT !.cache_building = FALSE, !.pc[TheScan] = "done"]
    /\ OnlyAwaits

\* the steps of a task that wait for nothing but the event loop or a call
Proceeds(t) ==
    \/ IsrcSearchReturns(t)
    \/ MbidsResolved(t)
    \/ MbidLoopStep(t)
    \/ MbidFetchReturns(t)
    \/ GuidSearchReturns(t)
    \/ LiveSearchReturns(t)
    \/ ProcessTrack(t)
    \/ Revocation(t)

ScanProceeds ==
    \/ ScanFlagged
    \/ ScanFetchReturns
    \/ ScanSleepReturns
    \/ ScanFinally

ScanGranted ==
    \/ RateLimitAcquire(TheScan)
    \/ ScanMergeUnderLock

\* the steps of a task that are granted a semaphore, a lock or a slot
Granted(t) ==
    \/ SemaphoreEnter(t)
    \/ RateLimitAcquire(t)
    \/ MbidLockAcquire(t)
    \/ ExactUnderLock(t)
    \/ CandidatesUnderLock(t)

-----------------------------------------------------------------------------
(* Initial states and specifications *)

NoCall == [op |-> "", slot |-> FALSE]

\* no cleanup yet, no request to MusicBrainz yet, no provider registered,
\* no load_cache_from_db running
OneSourceIdle ==
    /\ deleted_count = 0
    /\ mb_limiter = IdleLimiter
    /\ mbq = [p \in Procs |-> IdleQuery]
    /\ scored_mbids = NoScored
    /\ registry = IdleRegistry
    /\ boot = IdleBoot
    /\ ic = IdleInit
    /\ inflight = IdleBatches
    /\ sk = IdleSk
    /\ bk = IdleBk

AuxIdle ==
    /\ OneSourceIdle
    /\ liked_elsewhere = {}

\* max_concurrent_workers = 4 until configure_rate_limiting changes it
DefaultWorkers == 4

\* no batch, no playlist update, nothing timed
SyncIdle ==
    /\ stopwatch = [n |-> 0, since |-> 0, last |-> 0]
    /\ max_concurrent_workers = DefaultWorkers
    /\ semaphore = 0
    /\ pl = IdlePl
    /\ plex_playlist = NoPlaylist

\* the library as a scan stores it in table plex_cache
ScannedRows == PageKeys(LibraryPage(0, Len(PlexLibrary)))

\* no scan, no clear_cache, no sync of liked tracks, nothing rated
JobsIdle ==
    /\ cache_building = FALSE
    /\ bt = [b \in Builders |-> IdleBuild]
    /\ cc = "idle"
    /\ liked_tracks = {}
    /\ user_rating = [rk \in RatingKeys |-> 0]
    /\ lk = IdleLk

\* no track cached, nothing running on the Plex side
PlexIdle ==
    /\ plex_tracks_cache = <<>>
    /\ plex_tracks_cache_index = EmptyDict
    /\ plex_lookup_full = EmptyDict
    /\ plex_lookup_partial = EmptyDict
    /\ plex_partial_duration_index = EmptyDict
    /\ plex_artist_index = EmptyDict
    /\ plex_duration_index = EmptyDict
    /\ plex_mbid_index = EmptyDict
    /\ plex_cache = {}
    /\ plex_mbid_table = EmptyDict
    /\ cache_lock = Free
    /\ musicbrainz_enabled = TRUE
    /\ extended_cache_enabled = TRUE
    /\ plex_level = 0
    /\ last_call = NoCall
    /\ mt = [p \in Tasks |-> IdleTask]
    /\ SyncIdle
    /\ JobsIdle

InitMB ==
    /\ now = 0
    /\ isrc_mbid_cache = {}
    /\ res = [p \in Tasks |-> IdleRes]
    /\ bq = IdleBq
    /\ AuxIdle
    /\ PlexIdle

NextMB ==
    \/ \E p \in Procs, raw \in RawIsrcs : ResolveStart(p, raw)
    \/ \E p \in Procs : ResolveLookup(p)
    \/ \E p \in Procs : ResolveAcquire(p)
    \/ \E p \in Procs, o \in FirstOutcomes : ResolveGet(p, o)
    \/ \E p \in Procs, o \in RetryOutcomes : ResolveRetry(p, o)
    \/ \E p \in Procs : ResolveSave(p)
    \/ \E p \in Procs : ResolveReturn(p)
    \/ cleanup_expired_cache
    \/ \E d \in ClockDays : Tick(d)

SpecMB == InitMB /\ [][NextMB]_vars

\* two tasks query the MusicBrainz API while the clock of the limiter runs
QueryStatuses == {"200", "404", "503"}

NextMbTimed ==
    \/ MbTick
    \/ \E p \in Procs : QueryStart(p)
    \/ \E p \in Procs : QueryGet(p)
    \/ \E p \in Procs, status \in QueryStatuses : QueryResponse(p, status)
    \/ \E p \in Procs : QueryRetry(p)
    \/ \E p \in Procs : QueryRetryResponse(p)

SpecMbTimed == InitMB /\ [][NextMbTimed]_vars

\* identifiers in the spellings the service may use, added under every type
RawMbids == {MB1, MB2, <<"M", "1">>}

NextScored == \E raw \in RawMbids, type \in MBIDTypes : ScoredAdd(raw, type)

SpecScored == InitMB /\ [][NextScored]_vars

\* providers are registered and sync_all runs
NextRegistry ==
    \/ \E name \in ProviderNames : Register(name)
    \/ \E user_inputs \in UserInputsSet : SyncAllStart(user_inputs)
    \/ \E name \in ProviderNames, ok \in BOOLEAN : SyncRun(name, ok)
    \/ SyncAllReturn

SpecRegistry == InitMB /\ [][NextRegistry]_vars

\* what an earlier run of the program has scanned before it stopped, in the
\* library of its day
ScannedBefore == {<<>>, <<101>>, <<101, 102>>, <<101, 102, 103>>, <<102, 103>>}

\* startup: nothing in memory; the tables hold what an earlier run has
\* scanned, table plex_cache emptied or not by a clear_cache since
InitLoad ==
    /\ now = 0
    /\ isrc_mbid_cache = {}
    /\ res = [p \in Tasks |-> IdleRes]
    /\ bq = IdleBq
    /\ AuxIdle
    /\ musicbrainz_enabled \in BOOLEAN
    /\ extended_cache_enabled \in BOOLEAN
    /\ plex_tracks_cache = <<>>
    /\ plex_tracks_cache_index = EmptyDict
    /\ plex_lookup_full = EmptyDict
    /\ plex_lookup_partial = EmptyDict
    /\ plex_partial_duration_index = EmptyDict
    /\ plex_artist_index = EmptyDict
    /\ plex_duration_index = EmptyDict
    /\ plex_mbid_index = EmptyDict
    /\ \E scanned \in ScannedBefore, kept \in ScannedBefore :
          /\ plex_mbid_table = TableMerge(EmptyDict, scanned)
          /\ plex_cache = PageKeys(scanned) \cap PageKeys(kept)
    /\ cache_lock = Free
    /\ plex_level = 0
    /\ last_call = NoCall
    /\ mt = [p \in Tasks |-> IdleTask]
    /\ SyncIdle
    /\ JobsIdle

NextLoad ==
    \/ \E order \in UNION {RowOrders(rows) : rows \in SUBSET ScannedRows} :
          LoadSelect(order)
    \/ LoadLocked
    \/ LoadMerge

SpecLoad == InitLoad /\ [][NextLoad]_vars

\* lists of ISRCs are resolved, or the cache warmed for them, one call after
\* the other while the days go by
NextResolveBatch ==
    \/ \E isrcs \in IsrcLists, warm \in BOOLEAN : BatchResolveStart(isrcs, warm)
    \/ \E isrc \in AllIsrcs : BatchResolveAcquire(isrc)
    \/ \E o \in FirstOutcomes : BatchResolveGet(o)
    \/ \E o \in RetryOutcomes : BatchResolveRetry(o)
    \/ BatchResolveSave
    \/ BatchResolveReturn
    \/ \E d \in ClockDays : Tick(d)

SpecResolveBatch == InitMB /\ [][NextResolveBatch]_vars

\* the state fetch_and_cache_tracks leaves after scanning the whole library
Scanned ==
    LET page == LibraryPage(0, PLEX_BATCH_SIZE)
        cache == MergeRaw(<<>>, page)
        values == CacheValues(cache)
    IN  /\ plex_tracks_cache = cache
        /\ plex_tracks_cache_index = CacheIndexOf(values)
        /\ plex_lookup_full =
             IF extended_cache_enabled THEN LookupFullOf(values) ELSE EmptyDict
        /\ plex_lookup_partial =
             IF extended_cache_enabled THEN LookupPartialOf(values) ELSE EmptyDict
        /\ plex_partial_duration_index =
             IF extended_cache_enabled THEN PartialDurationIndexOf(values) ELSE EmptyDict
        /\ plex_artist_index =
             IF extended_cache_enabled THEN ArtistIndexOf(values) ELSE EmptyDict
        /\ plex_duration_index =
             IF extended_cache_enabled THEN DurationIndexOf(values) ELSE EmptyDict
        /\ plex_mbid_index = MergeMbids(EmptyDict, page)
        /\ plex_cache = ScannedRows
        /\ plex_mbid_table = TableMerge(EmptyDict, page)

\* the state load_cache_from_db leaves when table plex_cache is empty and
\* table plex_mbid_index is not: no track in memory, MBID entries without one
IndexOnly ==
    LET scanned == MergeMbids(EmptyDict, LibraryPage(0, PLEX_BATCH_SIZE))
    IN  /\ plex_tracks_cache = <<>>
        /\ plex_tracks_cache_index = EmptyDict
        /\ plex_lookup_full = EmptyDict
        /\ plex_lookup_partial = EmptyDict
        /\ plex_partial_duration_index = EmptyDict
        /\ plex_artist_index = EmptyDict
        /\ plex_duration_index = EmptyDict
        /\ plex_mbid_index = [m \in DOMAIN scanned |-> [scanned[m] EXCEPT !.track = NoItem]]
        /\ plex_cache = {}
        /\ plex_mbid_table = TableMerge(EmptyDict, LibraryPage(0, PLEX_BATCH_SIZE))

\* nothing scanned, nothing loaded
NothingCached ==
    /\ plex_tracks_cache = <<>>
    /\ plex_tracks_cache_index = EmptyDict
    /\ plex_lookup_full = EmptyDict
    /\ plex_lookup_partial = EmptyDict
    /\ plex_partial_duration_index = EmptyDict
    /\ plex_artist_index = EmptyDict
    /\ plex_duration_index = EmptyDict
    /\ plex_mbid_index = EmptyDict
    /\ plex_cache = {}
    /\ plex_mbid_table = EmptyDict

\* matching starts on any of the three cache states, under any configuration
InitMatch ==
    /\ now = 0
    /\ isrc_mbid_cache = {}
    /\ res = [p \in Tasks |-> IdleRes]
    /\ bq = IdleBq
    /\ AuxIdle
    /\ musicbrainz_enabled \in BOOLEAN
    /\ extended_cache_enabled \in BOOLEAN
    /\ Scanned \/ IndexOnly \/ NothingCached
    /\ cache_lock = Free
    /\ plex_level = 0
    /\ last_call = NoCall
    /\ mt = [p \in Tasks |-> IdleTask]
    /\ SyncIdle
    /\ JobsIdle

\* the task that matches a track, and matches it once more
Matcher == "t1"

NextMatch ==
    \/ \E track \in InputTracks : MatchStart(Matcher, track)
    \/ _acquire_rate_limit(Matcher)
    \/ LimiterLeak
    \/ \E o \in {"ok", "error"} : IsrcSearch(Matcher, o)
    \/ MbidResolve(Matcher)
    \/ ResolveLookup(Matcher)
    \/ ResolveAcquire(Matcher)
    \/ \E o \in FirstOutcomes : ResolveGet(Matcher, o)
    \/ \E o \in RetryOutcomes : ResolveRetry(Matcher, o)
    \/ ResolveSave(Matcher)
    \/ \E order \in Orders(res[Matcher].result) : MbidResolved(Matcher, order)
    \/ MbidIndexLoop(Matcher)
    \/ \E o \in {"ok", "error"} : MbidFetch(Matcher, o)
    \/ \E o \in {"ok", "error"} : FallbackSearch(Matcher, o)
    \/ Extended(Matcher)
    \/ RawKeyExact(Matcher)
    \/ SearchCache(Matcher)
    \/ \E search \in LiveResults : LiveSearch(Matcher, search)
    \/ LiveSearchBadRequest(Matcher)
    \/ LiveSearchRaises(Matcher)
    \/ MatchAgain(Matcher)

SpecMatch == InitMatch /\ [][NextMatch]_vars

\* what an earlier run has left in table isrc_mbid_cache, a week ago
StoredRows ==
    { {},
      {[isrc |-> <<"U", "S", "1">>, mbid |-> <<"m", "1">>, is_negative |-> 0,
        cached_at |-> 0]},
      {[isrc |-> <<"U", "S", "1">>, mbid |-> <<>>, is_negative |-> 1,
        cached_at |-> 0]} }

\* startup a week later: initialize_cache, then ISRCs are resolved while the
\* days go by
InitStartup ==
    /\ now = 7
    /\ isrc_mbid_cache \in StoredRows
    /\ res = [p \in Tasks |-> IdleRes]
    /\ bq = IdleBq
    /\ AuxIdle
    /\ PlexIdle

\* the bucket width is left to its default
StartupInputs == {u \in InitInputs : u.plex_duration_bucket_seconds = 0}

NextStartup ==
    \/ \E user_inputs \in StartupInputs : InitializeCache(user_inputs)
    \/ ic.pc = "load" /\ LoadSelect(<<>>)
    \/ ic.pc = "load" /\ LoadLocked
    \/ ic.pc = "load" /\ LoadMerge
    \/ InitSweep
    \/ InitScan
    \/ \E raw \in RawIsrcs : ic.pc = "done" /\ ResolveStart(Matcher, raw)
    \/ ResolveLookup(Matcher)
    \/ ResolveAcquire(Matcher)
    \/ \E o \in FirstOutcomes : ResolveGet(Matcher, o)
    \/ \E o \in RetryOutcomes : ResolveRetry(Matcher, o)
    \/ ResolveSave(Matcher)
    \/ ResolveReturn(Matcher)
    \/ \E d \in ClockDays : Tick(d)

SpecStartup == InitStartup /\ [][NextStartup]_vars

\* the limiter alone, under a coroutine that acquires again and again
NextLimiter == TimedAcquire \/ LimiterLeak

SpecLimiter == InitMB /\ [][NextLimiter]_vars

\* the numbers of workers configure_rate_limiting is given
WorkerChoices == {2, DefaultWorkers}

\* a playlist is synchronised once the library has been scanned
InitBatch ==
    /\ now = 0
    /\ isrc_mbid_cache = {}
    /\ res = [p \in Tasks |-> IdleRes]
    /\ bq = IdleBq
    /\ AuxIdle
    /\ musicbrainz_enabled = FALSE
    /\ extended_cache_enabled = TRUE
    /\ Scanned
    /\ cache_lock = Free
    /\ plex_level = 0
    /\ last_call = NoCall
    /\ mt = [p \in Tasks |-> IdleTask]
    /\ stopwatch = [n |-> 0, since |-> 0, last |-> 0]
    /\ max_concurrent_workers \in WorkerChoices
    /\ semaphore = 0
    /\ pl = IdlePl
    /\ plex_playlist \in {NoPlaylist, <<103>>}
    /\ JobsIdle

Outcomes == {"ok", "error"}

NextBatch ==
    \/ \E n \in 0..Len(BatchTracks), append \in BOOLEAN : BatchStart(n, append)
    \/ \E p \in Tasks : SemAcquire(p)
    \/ \E p \in Tasks : _acquire_rate_limit(p)
    \/ LimiterLeak
    \/ \E p \in Tasks, o \in Outcomes : IsrcSearch(p, o)
    \/ \E p \in Tasks : Extended(p)
    \/ \E p \in Tasks : RawKeyExact(p)
    \/ \E p \in Tasks : SearchCache(p)
    \/ \E p \in Tasks, search \in LiveResults : LiveSearch(p, search)
    \/ \E p \in Tasks : LiveSearchBadRequest(p)
    \/ \E p \in Tasks : LiveSearchRaises(p)
    \/ \E p \in Tasks : SemRelease(p)
    \/ GatherReturns
    \/ GatherRaises
    \/ \E o \in Outcomes : PlaylistLookup(o)
    \/ \E o \in Outcomes : UpdateLookup(o)
    \/ \E o \in Outcomes : UpdateItems(o)
    \/ \E o \in Outcomes : UpdateRemove(o)
    \/ \E o \in Outcomes : UpdateAdd(o)
    \/ \E o \in Outcomes : PlaylistCreate(o)
    \/ \E edit \in BOOLEAN, poster \in BOOLEAN : PlaylistDecorate(edit, poster)
    \/ PlaylistReport

SpecBatch == InitBatch /\ [][NextBatch]_vars

\* the scan starts on an empty cache, with or without the extended indexes
InitBuild ==
    /\ now = 0
    /\ isrc_mbid_cache = {}
    /\ res = [p \in Tasks |-> IdleRes]
    /\ bq = IdleBq
    /\ AuxIdle
    /\ musicbrainz_enabled = TRUE
    /\ extended_cache_enabled \in BOOLEAN
    /\ NothingCached
    /\ cache_lock = Free
    /\ plex_level = 0
    /\ last_call = NoCall
    /\ mt = [p \in Tasks |-> IdleTask]
    /\ SyncIdle
    /\ JobsIdle

NextBuild ==
    \/ \E b \in Builders : BuildStart(b)
    \/ \E b \in Builders : BuildAcquire(b)
    \/ LimiterLeak
    \/ \E b \in Builders, o \in Outcomes : BuildFetch(b, o)
    \/ \E b \in Builders : BuildBackoff(b)
    \/ \E b \in Builders : BuildMerge(b)
    \/ \E b \in Builders, o \in Outcomes : BuildPersist(b, o)

SpecBuild == InitBuild /\ [][NextBuild]_vars

\* the scan started by initialize_cache runs while a track is matched: the
\* memory is empty, or holds the MBID index read back from its table
Scanner == "b1"

InitScanMatch ==
    /\ now = 0
    /\ isrc_mbid_cache = {}
    /\ res = [p \in Tasks |-> IdleRes]
    /\ bq = IdleBq
    /\ AuxIdle
    /\ musicbrainz_enabled = TRUE
    /\ extended_cache_enabled \in BOOLEAN
    /\ IndexOnly \/ NothingCached
    /\ cache_lock = Free
    /\ plex_level = 0
    /\ last_call = NoCall
    /\ mt = [p \in Tasks |-> IdleTask]
    /\ SyncIdle
    /\ JobsIdle

\* the tracks matched meanwhile: 101 under the ISRC of 103, and 101 on
\* another album with a duration
ScanMatchTracks ==
    {t \in InputTracks : /\ t.title = <<"Y", "e", "s">>
                         /\ t.isrc # NoIsrc \/ t.duration_ms # NoneInt}

NextScanMatch ==
    \/ BuildStart(Scanner)
    \/ BuildAcquire(Scanner)
    \/ BuildFetch(Scanner, "ok")
    \/ BuildMerge(Scanner)
    \/ BuildPersist(Scanner, "ok")
    \/ \E track \in ScanMatchTracks : MatchStart(Matcher, track)
    \/ _acquire_rate_limit(Matcher)
    \/ LimiterLeak
    \/ \E o \in {"ok", "error"} : IsrcSearch(Matcher, o)
    \/ MbidResolve(Matcher)
    \/ ResolveLookup(Matcher)
    \/ ResolveAcquire(Matcher)
    \/ \E o \in FirstOutcomes : ResolveGet(Matcher, o)
    \/ \E o \in RetryOutcomes : ResolveRetry(Matcher, o)
    \/ ResolveSave(Matcher)
    \/ \E order \in Orders(res[Matcher].result) : MbidResolved(Matcher, order)
    \/ MbidIndexLoop(Matcher)
    \/ \E o \in {"ok", "error"} : MbidFetch(Matcher, o)
    \/ \E o \in {"ok", "error"} : FallbackSearch(Matcher, o)
    \/ Extended(Matcher)
    \/ RawKeyExact(Matcher)
    \/ SearchCache(Matcher)
    \/ \E search \in LiveResults : LiveSearch(Matcher, search)
    \/ LiveSearchBadRequest(Matcher)
    \/ LiveSearchRaises(Matcher)

SpecScanMatch == InitScanMatch /\ [][NextScanMatch]_vars

\* a playlist batch and a liked-track batch of up to MaxBatchTracks tracks,
\* under one, two or the default number of workers
InitFanOut ==
    /\ now = 0
    /\ isrc_mbid_cache = {}
    /\ res = [p \in Tasks |-> IdleRes]
    /\ bq = IdleBq
    /\ AuxIdle
    /\ musicbrainz_enabled = TRUE
    /\ extended_cache_enabled = TRUE
    /\ Scanned
    /\ cache_lock = Free
    /\ plex_level = 0
    /\ last_call = NoCall
    /\ mt = [p \in Tasks |-> IdleTask]
    /\ stopwatch = [n |-> 0, since |-> 0, last |-> 0]
    /\ max_concurrent_workers \in {1, 2, DefaultWorkers}
    /\ semaphore = 0
    /\ pl = IdlePl
    /\ plex_playlist = NoPlaylist
    /\ JobsIdle

NextFanOut ==
    \/ \E b \in BatchIds, n \in 1..MaxBatchTracks : FanOutStart(b, n)
    \/ \E b \in BatchIds : FanOutEnter(b)
    \/ \E b \in BatchIds : FanOutExit(b)
    \/ \E b \in BatchIds : FanOutGathered(b)

SpecFanOut == InitFanOut /\ [][NextFanOut]_vars

\* the scan, two matches of a playlist, the sync of one liked track
InitAwaits ==
    /\ now = 0
    /\ isrc_mbid_cache = {}
    /\ res = [p \in Tasks |-> IdleRes]
    /\ bq = IdleBq
    /\ AuxIdle
    /\ musicbrainz_enabled = TRUE
    /\ extended_cache_enabled = TRUE
    /\ Scanned
    /\ cache_lock = Free
    /\ plex_level = 0
    /\ last_call = NoCall
    /\ mt = [p \in Tasks |-> IdleTask]
    /\ stopwatch = [n |-> 0, since |-> 0, last |-> 0]
    /\ max_concurrent_workers = 1
    /\ semaphore = 0
    /\ pl = IdlePl
    /\ plex_playlist = NoPlaylist
    /\ JobsIdle

NextAwaits ==
    \/ RateLimitLeak
    \/ ScanFlagged
    \/ ScanFetchReturns
    \/ ScanMergeUnderLock
    \/ ScanSleepReturns
    \/ ScanFinally
    \/ \E t \in Awaiters : RateLimitAcquire(t)
    \/ \E t \in Matches : SemaphoreEnter(t)
    \/ \E t \in Matches : IsrcSearchReturns(t)
    \/ \E t \in Matches : MbidsResolved(t)
    \/ \E t \in Matches : MbidLockAcquire(t)
    \/ \E t \in Matches : MbidLoopStep(t)
    \/ \E t \in Matches : MbidFetchReturns(t)
    \/ \E t \in Matches : GuidSearchReturns(t)
    \/ \E t \in Matches : ExactUnderLock(t)
    \/ \E t \in Matches : CandidatesUnderLock(t)
    \/ \E t \in Matches : LiveSearchReturns(t)
    \/ \E t \in Matches : ProcessTrack(t)
    \/ \E t \in Matches : Revocation(t)

\* the event loop runs every task that is ready and every call returns;
\* the waiters of an asyncio lock or semaphore and of the limiter are woken
\* in the order they came, and time goes on. A task has one step at a time,
\* so strong fairness of its steps is weak fairness of the steps that wait
\* for nothing and strong fairness of the grants
FairAwaits ==
    /\ WF_vars(RateLimitLeak)
    /\ SF_vars(ScanProceeds \/ ScanGranted)
    /\ \A t \in Matches : SF_vars(Proceeds(t) \/ Granted(t))

SpecAwaits == InitAwaits /\ [][NextAwaits]_vars /\ FairAwaits

\* initialize_cache takes a bucket width, and stage 4 compares durations
BucketInputs ==
    {u \in InitInputs : /\ u.musicbrainz_enabled /\ u.plex_extended_cache_enabled
                        /\ u.musicbrainz_cache_ttl_days = 90
                        /\ u.musicbrainz_negative_cache_ttl_days = 7}

NextBuckets ==
    \/ \E user_inputs \in BucketInputs : InitializeCache(user_inputs)
    \/ \E track_ms \in DurationsMs, candidate_ms \in DurationsMs :
          DurationPrefilter(track_ms, candidate_ms)

SpecBuckets == InitMB /\ [][NextBuckets]_vars

\* the cache is cleared after a scan, and tracks are matched before, while
\* and after it is
InitClear ==
    /\ now = 0
    /\ isrc_mbid_cache = {}
    /\ res = [p \in Tasks |-> IdleRes]
    /\ bq = IdleBq
    /\ AuxIdle
    /\ musicbrainz_enabled = FALSE
    /\ extended_cache_enabled \in BOOLEAN
    /\ Scanned
    /\ cache_lock = Free
    /\ plex_level = 0
    /\ last_call = NoCall
    /\ mt = [p \in Tasks |-> IdleTask]
    /\ SyncIdle
    /\ JobsIdle

NextClear ==
    \/ ClearLocked
    \/ \E o \in Outcomes : ClearDelete(o)
    \/ \E track \in InputTracks : MatchStart(Matcher, track)
    \/ _acquire_rate_limit(Matcher)
    \/ LimiterLeak
    \/ \E o \in Outcomes : IsrcSearch(Matcher, o)
    \/ Extended(Matcher)
    \/ RawKeyExact(Matcher)
    \/ SearchCache(Matcher)
    \/ \E search \in LiveResults : LiveSearch(Matcher, search)
    \/ LiveSearchBadRequest(Matcher)
    \/ LiveSearchRaises(Matcher)

SpecClear == InitClear /\ [][NextClear]_vars

\* the records a source has before a sync: none, or 101 and 102, each rated
\* five stars when its record was written
SyncedBefore == {{}, {101, 102}}

\* the liked tracks of a source are synced over a scanned library, and once
\* more with the same list
InitLiked ==
    /\ now = 0
    /\ isrc_mbid_cache = {}
    /\ res = [p \in Tasks |-> IdleRes]
    /\ bq = IdleBq
    /\ AuxIdle
    /\ musicbrainz_enabled = FALSE
    /\ extended_cache_enabled \in BOOLEAN
    /\ Scanned
    /\ cache_lock = Free
    /\ plex_level = 0
    /\ last_call = NoCall
    /\ mt = [p \in Tasks |-> IdleTask]
    /\ SyncIdle
    /\ cache_building = FALSE
    /\ bt = [b \in Builders |-> IdleBuild]
    /\ cc = "idle"
    /\ liked_tracks \in SyncedBefore
    /\ user_rating = [rk \in RatingKeys |-> IF rk \in liked_tracks THEN 10 ELSE 0]
    /\ lk = IdleLk

NextLiked ==
    \/ \E liked \in LikedLists : LikedStart(liked)
    \/ LikedAgain
    \/ \E p \in Tasks :
          \/ SemAcquire(p)
          \/ _acquire_rate_limit(p)
          \/ Extended(p)
          \/ RawKeyExact(p)
          \/ SearchCache(p)
          \/ \E search \in LiveResults : LiveSearch(p, search)
          \/ LiveSearchBadRequest(p)
          \/ LiveSearchRaises(p)
          \/ LikedMatched(p)
          \/ RateAcquire(p)
          \/ \E o \in Outcomes : RateCall(p, o)
          \/ LikedSave(p)
          \/ LikedRaised(p)
    \/ LimiterLeak
    \/ LikedGatherRaises
    \/ LikedGather
    \/ \E plex_id \in RatingKeys : UnrateAcquire(plex_id)
    \/ \E o \in FetchOutcomes : UnrateFetch(o)
    \/ UnrateRateAcquire
    \/ \E o \in Outcomes : UnrateRate(o)

SpecLiked == InitLiked /\ [][NextLiked]_vars

\* the same with a second source: it has no record, or the record of 101,
\* which it rated five stars when it wrote the record
InitLikedTwo ==
    /\ now = 0
    /\ isrc_mbid_cache = {}
    /\ res = [p \in Tasks |-> IdleRes]
    /\ bq = IdleBq
    /\ OneSourceIdle
    /\ musicbrainz_enabled = FALSE
    /\ extended_cache_enabled = TRUE
    /\ Scanned
    /\ cache_lock = Free
    /\ plex_level = 0
    /\ last_call = NoCall
    /\ mt = [p \in Tasks |-> IdleTask]
    /\ SyncIdle
    /\ cache_building = FALSE
    /\ bt = [b \in Builders |-> IdleBuild]
    /\ cc = "idle"
    /\ liked_tracks \in SyncedBefore
    /\ liked_elsewhere \in {{}, {101}}
    /\ user_rating = [rk \in RatingKeys |->
                        IF rk \in liked_tracks \cup liked_elsewhere THEN 10 ELSE 0]
    /\ lk = IdleLk

SpecLikedTwo == InitLikedTwo /\ [][NextLiked]_vars

-----------------------------------------------------------------------------
(* Claims about the match engine *)

\* C1: whenever _match_single_track has returned, exactly one component of
\* the pair is non-null: either a Plex item and no missing track, or no item
\* and the input track itself as the missing one.
C1_ExactlyOneNonNull ==
    \A p \in Tasks :
       mt[p].pc = "done" =>
          \/ mt[p].result \in RatingKeys /\ mt[p].missing = NoTrack
          \/ mt[p].result = NoItem /\ mt[p].missing = mt[p].track
                                   /\ mt[p].track # NoTrack

\* a track went through every stage and came back as missing
C1_Witness ==
    /\ mt[Matcher].pc = "done"
    /\ mt[Matcher].stage = "none"
    /\ mt[Matcher].missing \in InputTracks
    /\ mt[Matcher].first.result \in RatingKeys

\* the place of each step in the order of the stages
StageRank(pc) ==
    CASE pc = "idle" -> 0
      [] pc \in {"isrc_acquire", "isrc_search"} -> 1
      [] pc \in {"mbid_resolve", "mbid_wait", "mbid_index", "mbid_fetch_acquire",
                 "mbid_fetch", "fb_acquire", "fb_search"} -> 2
      [] pc = "ext" -> 3
      [] pc = "raw" -> 6
      [] pc \in {"s7_cache", "s7_acquire", "s7_search"} -> 7
      [] pc \in {"done", "raised"} -> 8

\* what the stage that matched implies about the stages before it
FirstSuccess(task) ==
    LET track == task.track
        hits == GuidSearch(IsrcGuid(track.isrc))
        extended == task.stage \in {"normalized", "duration", "artist"}
        later == task.stage \in {"raw", "relaxed", "none"}
    IN  /\ task.stage = "isrc" => hits # <<>> /\ task.result = hits[1]
        /\ task.stage \notin {"isrc", "mbid", "mbid_fallback"} /\ track.isrc # NoIsrc
             => StageRank(FirstPc(track)) = 1
        /\ extended => extended_cache_enabled
        /\ task.stage = "normalized" => task.result = NormalizedExact(track).item
        /\ task.stage = "duration" =>
              /\ NormalizedExact(track) = NoMatch
              /\ task.result = DurationPartial(track).item
        /\ task.stage = "artist" =>
              /\ NormalizedExact(track) = NoMatch
              /\ DurationPartial(track) = NoMatch
              /\ task.result = ArtistFuzzy(track).item
        /\ later /\ extended_cache_enabled => ExtendedStages(track) = NoMatch
        /\ task.stage = "raw" => task.result = RawExact(track).item
        /\ task.stage \in {"relaxed", "none"} => RawExact(track) = NoMatch

\* C2: the stages run in the fixed order ISRC exact, MBID proxy, normalized
\* full-key exact, duration-aware partial, artist-index fuzzy, raw-key exact,
\* relaxed search; a run never goes back to an earlier stage, the first stage
\* that succeeds decides the result (an ISRC found in Plex resolves to that
\* item whatever a later stage would have scored), and nothing runs after a
\* match except a new run.
C2_StageOrder ==
    [][\A p \in Tasks :
          /\ mt[p].pc # "done" /\ mt[p].pc # "raised"
               => StageRank(mt'[p].pc) >= StageRank(mt[p].pc)
          /\ mt[p].pc = "isrc_search" /\ mt'[p].pc = "done"
               => mt'[p].stage = "isrc"
          /\ mt[p].pc = "done" /\ mt'[p] # mt[p]
               => mt'[p].pc \in {"idle", FirstPc(mt[p].track)}
          /\ mt'[p].pc = "done" => FirstSuccess(mt'[p])]_vars

\* the ISRC stage returned item 103 for a track that the normalized full-key
\* stage would have resolved to another item
C2_Witness ==
    /\ mt[Matcher].pc = "done"
    /\ mt[Matcher].stage = "isrc"
    /\ mt[Matcher].result = 103
    /\ extended_cache_enabled
    /\ NormalizedExact(mt[Matcher].track).item = 101

\* the cached tracks filed under the normalized partial key of a track whose
\* duration is 2 seconds away from the track's
TwoSecondsApart(track) ==
    LET buckets == Get(plex_partial_duration_index,
                       KeysOfTrack(track).lookup_key_partial, EmptyDict)
    IN  {rk \in RatingKeys :
           /\ \E b \in DOMAIN buckets :
                 \E i \in 1..Len(buckets[b]) : buckets[b][i] = rk
           /\ Abs(Item(rk).duration - track.duration_ms) = 2000}

\* C19: when the stages on the extended cache run and the normalized
\* full-key stage finds nothing, a track with the normalized partial key of a
\* cached track and a duration 2 seconds from it is matched to that cached
\* track by the duration-aware stage; and the duration-aware stage never
\* returns a cached track whose duration is further from the track's than
\* DURATION_TOLERANCE_MS.
C19_DurationAwareMatch ==
    [][\A p \in Tasks :
          mt[p].pc = "ext" /\ mt'[p].pc # "ext" /\ extended_cache_enabled
             => /\ NormalizedExact(mt[p].track) = NoMatch
                     => \A rk \in TwoSecondsApart(mt[p].track) :
                           /\ mt'[p].pc = "done"
                           /\ mt'[p].stage = "duration"
                           /\ mt'[p].result = rk
                /\ mt'[p].pc = "done" /\ mt'[p].stage = "duration"
                     => Abs(Item(mt'[p].result).duration - mt[p].track.duration_ms)
                           <= DURATION_TOLERANCE_MS]_vars

\* the cached entries whose normalized full key is that of a track
CachedUnderFullKey(track) ==
    {rk \in RatingKeys :
       /\ \E i \in 1..Len(plex_tracks_cache) : plex_tracks_cache[i].track = rk
       /\ KeysOf(rk).lookup_key_full = KeysOfTrack(track).lookup_key_full}

\* C20: with the extended cache enabled, the match of a track without ISRC
\* starts at the stages on the extended cache, and if the normalized full
\* key of the track is that of a cached entry, the match returns that entry
\* through the normalized-exact stage and calls Plex for nothing.
C20_NormalizedExactNoCall ==
    [][\A p \in Tasks :
          extended_cache_enabled /\ mt'[p].track.isrc = NoIsrc
             => /\ mt[p].pc = "idle" /\ mt'[p].pc # "idle"
                     => mt'[p].pc = "ext" /\ UNCHANGED <<last_call, plex_level>>
                /\ (/\ mt[p].pc = "ext"
                    /\ mt'[p].pc # "ext"
                    /\ CachedUnderFullKey(mt[p].track) # {})
                     => /\ mt'[p].pc = "done"
                        /\ mt'[p].stage = "normalized"
                        /\ mt'[p].result \in CachedUnderFullKey(mt[p].track)
                        /\ mt'[p].missing = NoTrack
                        /\ UNCHANGED <<last_call, plex_level>>]_vars

\* 'yes' by 'ab' on 'h!' came back as item 101, cached as 'Yes' by 'Ab' on
\* 'H!', from the normalized-exact stage
C20_Witness ==
    /\ extended_cache_enabled
    /\ mt[Matcher].pc = "done"
    /\ mt[Matcher].track.isrc = NoIsrc
    /\ mt[Matcher].track.title = <<"y", "e", "s">>
    /\ mt[Matcher].track.album = <<"h", "!">>
    /\ mt[Matcher].stage = "normalized"
    /\ mt[Matcher].result = 101
    /\ Item(101).title = <<"Y", "e", "s">>

\* C3: matching the same track twice, with the library, the cache and the set
\* of candidate MBIDs unchanged, gives the same Plex item, in whatever order
\* the candidate set is iterated.
C3_SameItemWhateverOrder ==
    \A p \in Tasks :
       /\ mt[p].pc = "done"
       /\ mt[p].stage = "mbid"
       /\ mt[p].first.stage = "mbid"
       /\ mt[p].first.mbids = mt[p].mbids
       => mt[p].result = mt[p].first.result

\* C28: a match adds, removes or replaces no track in the raw map, in a
\* derived index or in table plex_cache, whether it finds an item or not and
\* whichever live search it runs; all it may change of the cache is the track
\* object of an MBID index entry that exists.
C28_MatchLeavesTheCache ==
    [][/\ UNCHANGED <<cacheVars, plex_cache, plex_mbid_table>>
       /\ DOMAIN plex_mbid_index' = DOMAIN plex_mbid_index
       /\ \A m \in DOMAIN plex_mbid_index :
             /\ plex_mbid_index'[m].plex_id = plex_mbid_index[m].plex_id
             /\ plex_mbid_index'[m].track_key = plex_mbid_index[m].track_key]_vars

\* a match has found its item by a live search of Plex, or by fetching the
\* item of an MBID entry, and no track is in the raw map
C28_Witness ==
    /\ mt[Matcher].pc = "done"
    /\ mt[Matcher].result # NoItem
    /\ mt[Matcher].first.stage \in {"isrc", "mbid_fallback", "relaxed"}
    /\ mt[Matcher].stage = "mbid"
    /\ plex_tracks_cache = <<>>
    /\ \E m \in DOMAIN plex_mbid_index : plex_mbid_index[m].track # NoItem

\* the entry of plex_mbid_index the loop of task p hits first from where it is
FirstHit(p) ==
    plex_mbid_index[_normalize_mbid(
        mt[p].order[SetMin(IndexedFrom(mt[p].order, mt[p].i))])]

\* C29: when the MBID stage hits an entry of plex_mbid_index that holds a
\* plex_id and no track, it takes a slot of the Plex limiter, fetches that
\* item, stores the object in the entry and returns it; a match that hits an
\* entry holding the object returns it from the MBID stage without a call to
\* Plex.
C29_FetchedOnceThenStored ==
    [][mt'[Matcher] # mt[Matcher] =>
         /\ ( /\ mt[Matcher].pc = "mbid_index"
              /\ IndexedFrom(mt[Matcher].order, mt[Matcher].i) # {}
              /\ FirstHit(Matcher).track = NoItem )
            => mt'[Matcher].pc = "mbid_fetch_acquire" /\ last_call' = last_call
         /\ mt[Matcher].pc = "mbid_fetch_acquire"
            => /\ mt'[Matcher].pc = "mbid_fetch" /\ mt'[Matcher].slot
               /\ plex_level' = plex_level + 1
         /\ (mt[Matcher].pc = "mbid_fetch" /\ mt'[Matcher].pc = "done")
            => LET mbid == _normalize_mbid(mt[Matcher].order[mt[Matcher].i])
               IN  /\ last_call' = [op |-> "fetchItem", slot |-> TRUE]
                   /\ plex_mbid_index'[mbid].track = plex_mbid_index[mbid].plex_id
                   /\ mt'[Matcher].result = plex_mbid_index[mbid].plex_id
                   /\ mt'[Matcher].stage = "mbid"
         /\ ( /\ mt[Matcher].pc = "mbid_index"
              /\ IndexedFrom(mt[Matcher].order, mt[Matcher].i) # {}
              /\ FirstHit(Matcher).track # NoItem )
            => /\ mt'[Matcher].pc = "done"
               /\ mt'[Matcher].result = FirstHit(Matcher).track
               /\ mt'[Matcher].stage = "mbid"
               /\ last_call' = last_call
               /\ plex_level' = plex_level]_vars

\* the second match of a track returns from the MBID stage the item the first
\* one has fetched, the raw map being empty, and the latest call to Plex is
\* not a fetchItem
C29_Witness ==
    /\ mt[Matcher].pc = "done"
    /\ mt[Matcher].first.stage = "mbid"
    /\ mt[Matcher].stage = "mbid"
    /\ mt[Matcher].result = mt[Matcher].first.result
    /\ mt[Matcher].result # NoItem
    /\ plex_tracks_cache = <<>>
    /\ last_call.op # "fetchItem"

-----------------------------------------------------------------------------
(* Claims about the governor: the semaphore of a batch and the rate limiter *)

\* the tasks that are inside "async with semaphore", a permit in hand
InFlight == {p \in Tasks : mt[p].pc \notin {"idle", "sem_wait", "returned", "failed"}}

\* every match of the batch has returned its pair
AllMatched == \A p \in BatchOf(pl.n) : mt[p].pc = "returned"

\* every match of the batch has been left, with a pair or with an exception:
\* nothing of the batch will run any more
BatchAtRest == \A p \in BatchOf(pl.n) : mt[p].pc \in {"returned", "failed"}

\* C8: while a batch of M tracks is matched with K workers and M > K, at most
\* K invocations of _match_single_track execute at the same time, and all M
\* tracks are eventually matched: once the batch is at rest, none is left out
C8_CappedAndAllMatched ==
    /\ Cardinality(InFlight) <= max_concurrent_workers
    /\ pl.n > max_concurrent_workers /\ BatchAtRest => AllMatched

\* C9: N acquisitions in a row at R per second take at least (N - 1) / R from
\* the first to the last; the stopwatch counts in units of 1 / R
C9_ElapsedAtLeast == stopwatch.n >= 1 => stopwatch.last >= stopwatch.n - 1

\* C10: every call to the Plex server is preceded by the acquisition of a slot
\* of the rate limiter that is taken for that call
C10_SlotBeforeCall == last_call # NoCall => last_call.slot

\* C18: a failure while one track of a batch is matched stays with that
\* track: no exception leaves its match (the track is reported missing
\* instead), and none leaves the gather of _get_available_plex_tracks or of
\* sync_liked_tracks_to_plex.
C18_FailureIsolated ==
    /\ \A p \in Tasks : mt[p].pc \notin {"raised", "failed"}
    /\ ~(pl.pc = "failed" /\ \E p \in BatchOf(pl.n) : mt[p].pc = "failed")
    /\ lk.pc # "failed"

\* the match operations in flight in the process
MatchesInFlight == inflight["playlist"].matching + inflight["liked"].matching

\* C33: the total number of match operations in flight in the process never
\* exceeds max_concurrent_workers, also when several batches run at the same
\* time
C33_WorkersCapTheProcess == MatchesInFlight <= max_concurrent_workers

\* the elements of a sequence at the indexes of a set, in ascending order
RECURSIVE Picked(_, _, _)
Picked(seq, idx, n) ==
    IF n = 0 THEN <<>>
    ELSE IF n \in idx THEN Append(Picked(seq, idx, n - 1), seq[n])
    ELSE Picked(seq, idx, n - 1)

\* C35: _get_available_plex_tracks partitions its input: when it returns, the
\* tracks of the input split into those that matched and those that did not,
\* the matched list holds the Plex items of the former and the missing list
\* the latter themselves, one element per input track, and both lists are in
\* the order of the input whatever order the matches completed in
C35_PartitionInInputOrder ==
    [][pl.pc = "matching" /\ pl'.pc \notin {"matching", "failed"} =>
          /\ Len(pl'.available) + Len(pl'.missing) = pl.n
          /\ \E matched \in SUBSET (1..pl.n) :
                /\ \A i \in matched : mt[TaskIds[i]].result # NoItem
                /\ pl'.available =
                      Picked([i \in 1..pl.n |-> mt[TaskIds[i]].result], matched, pl.n)
                /\ pl'.missing = Picked(BatchTracks, (1..pl.n) \ matched, pl.n)]_vars

\* a batch of three tracks has returned two different matched items and one
\* missing track
C35_Witness ==
    /\ pl.pc = "pl_lookup"
    /\ pl.n = 3
    /\ Len(pl.available) = 2
    /\ pl.available[1] # pl.available[2]
    /\ Len(pl.missing) = 1

-----------------------------------------------------------------------------
(* Claims about the full scan of the library *)

Scanning == {b \in Builders : bt[b].pc \in ScanPcs}

\* a trigger that arrives while another invocation is scanning
SecondTrigger(b) ==
    /\ bt[b].pc \notin ScanPcs
    /\ bt'[b] # bt[b]
    /\ Scanning # {}

\* C11: at most one full scan runs at any time, and an invocation of
\* fetch_and_cache_tracks that is triggered while another one is scanning
\* returns without a page request and leaves the caches, table plex_cache and
\* the build-in-progress flag as they are
C11_OneScanAtATime ==
    /\ [](Cardinality(Scanning) <= 1)
    /\ [][\A b \in Builders :
            SecondTrigger(b) =>
              /\ bt'[b].pc = "skipped"
              /\ UNCHANGED <<cacheVars, plex_mbid_index, plex_cache,
                             cache_building, last_call, plex_level>>]_vars

\* one invocation is in the middle of its scan, the other one has returned
C11_Witness ==
    \E b, c \in Builders :
        /\ bt[b].pc = "merge" /\ bt[b].offset = PageLimit
        /\ bt[c].pc = "skipped"
        /\ cache_building

\* C12: when the fetch of the page at offset o has failed in all its
\* attempts, the next page request of the scan is made at o + page size
C12_NextOffsetAfterFailure ==
    [][\A b \in Builders :
         bt[b].pc = "fetch" /\ bt'[b].pc = "backoff"
           => bt'[b].offset = bt[b].offset + PageLimit]_vars

\* C13: the requests made for one page are bounded by the fixed attempt
\* count (and so the scan comes to its end and resets the flag)
C13_BoundedFetches == \A b \in Builders : bt[b].tries <= FETCH_ATTEMPTS

\* C14: when clear_cache completes, the raw map, the lower-case key index,
\* the normalized full and partial indexes, the artist index and the duration
\* indexes hold no track and table plex_cache has no row
C14_EverythingCleared ==
    [][cc = "delete" /\ cc' = "done" =>
         /\ plex_tracks_cache' = <<>>
         /\ plex_tracks_cache_index' = EmptyDict
         /\ plex_lookup_full' = EmptyDict
         /\ plex_lookup_partial' = EmptyDict
         /\ plex_partial_duration_index' = EmptyDict
         /\ plex_artist_index' = EmptyDict
         /\ plex_duration_index' = EmptyDict
         /\ plex_cache' = {}]_vars

WaitsOnPlex(p) ==
    mt[p].pc \in AcquirePcs \cup {"isrc_search", "mbid_fetch", "fb_search", "s7_search"}

\* C40: a match operation never holds the cache lock while it waits for a
\* slot of the Plex rate limiter or for a Plex network call, so no page merge
\* of the scan is blocked on the cache lock by a match that waits on Plex
C40_NoPlexWaitUnderLock ==
    /\ ~(cache_lock = Matcher /\ WaitsOnPlex(Matcher))
    /\ ~(bt[Scanner].pc = "merge" /\ cache_lock = Matcher /\ WaitsOnPlex(Matcher))

-----------------------------------------------------------------------------
(* Claims about the sync of liked tracks *)

\* the plex_ids a call of sync_liked_tracks_to_plex rated 0.0
ZeroRated == {call[1] : call \in {c \in lk.rated : c[2] = 0}}

\* C15: a sync whose Plex calls all succeeded has zero-rated exactly the
\* plex_ids recorded before it that the liked list no longer matches, has
\* deleted their records, and has issued no rating call for a recorded
\* plex_id that is still matched, whose record stays (records 101 and 102
\* and a list matching only 101: 102 zero-rated and forgotten, 101 untouched).
C15_ZeroRatesTheUnliked ==
    lk.pc = "done" /\ ~lk.failed =>
       /\ ZeroRated = lk.before \ lk.current
       /\ liked_tracks \cap (lk.before \ lk.current) = {}
       /\ \A plex_id \in lk.before \cap lk.current :
             /\ plex_id \in liked_tracks
             /\ \A rating \in {0, 10} : <<plex_id, rating>> \notin lk.rated

\* C16: after a sync whose Plex calls all succeeded, the records of the
\* source are exactly the plex_ids matched from the liked list, and every
\* plex_id recorded before and no longer matched has rating 0, whatever the
\* liked list is, the empty one included.
C16_RecordsAreTheMatched ==
    lk.pc = "done" /\ ~lk.failed =>
       /\ liked_tracks = lk.current
       /\ \A plex_id \in lk.before \ lk.current : user_rating[plex_id] = 0

\* process_track finds its match among the records of the source
AlreadySynced(p) ==
    /\ lk.pc = "matching"
    /\ mt[p].pc = "done"
    /\ mt[p].result \in lk.previously_synced

\* the second sync is over and matched what the first had matched
SecondSyncDone ==
    /\ lk.pc = "done"
    /\ lk.run = 2
    /\ lk.current = lk.first.current

RevocationGoesOn ==
    /\ lk'.todo = lk.todo \ {lk.cur}
    /\ lk'.pc = IF lk'.todo = {} THEN "done" ELSE "unrate"

\* C30: during revocation a fetchItem that raises NotFound has the record of
\* its plex_id deleted, and the loop goes on with the plex_ids that are left;
\* any other failure for a plex_id (of the fetch, or of the rating) leaves
\* its record and the loop goes on as well: the loop ends only when no plex_id
\* is left.
C30_RevocationGoesOn ==
    /\ [](lk.pc = "done" => lk.todo = {})
    /\ [][lk' # lk =>
            /\ (lk.pc = "unrate_fetch" /\ lk'.status = "notfound")
               => liked_tracks' = liked_tracks \ {lk.cur} /\ RevocationGoesOn
            /\ (lk.pc = "unrate_fetch" /\ lk'.status = "error")
               => liked_tracks' = liked_tracks /\ RevocationGoesOn
            /\ (lk.pc = "unrate_rate" /\ user_rating' = user_rating)
               => liked_tracks' = liked_tracks /\ RevocationGoesOn]_vars

\* two records were to be revoked; the fetch of the first raised NotFound,
\* its record is gone, and the loop is at the fetch of the second
C30_Witness ==
    /\ lk.pc = "unrate_fetch"
    /\ lk.status = "notfound"
    /\ lk.previously_synced = {101, 102}
    /\ lk.current = {}
    /\ lk.todo = {lk.cur}
    /\ liked_tracks = {lk.cur}

\* C38: revoking an item for one source does not remove the rating another
\* source still accounts for: whenever no sync is running and every Plex call
\* of the latest sync has succeeded, every Plex item with a record in
\* liked_tracks for some source carries the maximum rating
C38_RecordedMeansRated ==
    lk.pc \in {"idle", "done"} /\ ~lk.failed =>
        \A rk \in liked_tracks \cup liked_elsewhere : user_rating[rk] = 10

-----------------------------------------------------------------------------
(* Claims about the resolution of a list of ISRCs *)

US1 == <<"U", "S", "1">>
GB2 == <<"G", "B", "2">>

\* C21: a batch resolution calls the service for no ISRC that had a valid
\* positive or negative row when the cache was read, and exactly once for
\* every other distinct normalized ISRC of the list, however often and in
\* whatever case or hyphenation the list spells it; the result has one key per
\* normalized ISRC, and what was fetched for an ISRC is in the cache once it
\* is saved.
C21_OneCallPerMiss ==
    /\ [](bq.pc # "idle" /\ bq.isrcs # <<>> =>
             /\ bq.normalized_isrcs =
                   {NormalizeIsrc(bq.isrcs[i]) : i \in 1..Len(bq.isrcs)} \ {<<>>}
             /\ \A i \in bq.normalized_isrcs :
                   bq.queries[i] <= (IF i \in bq.valid THEN 0 ELSE 1)
             /\ bq.pc = "done" =>
                   /\ \A i \in bq.normalized_isrcs \ bq.valid : bq.queries[i] = 1
                   /\ ~bq.warm => DOMAIN bq.results = bq.normalized_isrcs
                   /\ bq.warm => bq.fetched =
                                   Cardinality(bq.normalized_isrcs \ bq.valid))
    /\ [][bq.pc = "save" /\ bq'.pc # "save" =>
             /\ get_cached_mbids_at(isrc_mbid_cache', now, bq.cur).hit
             /\ _normalize_mbids(bq.mbids)
                   \subseteq get_cached_mbids_batch_at(isrc_mbid_cache', now,
                                                       bq.cur).mbids
             /\ ~bq.warm => bq'.results[bq.cur] = _normalize_mbids(bq.mbids)]_vars

\* 'us-1' had a valid row and was answered from it; 'GB2' had none and was
\* fetched with one call
C21_Witness ==
    /\ bq.pc = "done"
    /\ ~bq.warm
    /\ bq.isrcs = << <<"u", "s", "-", "1">>, GB2, <<>> >>
    /\ bq.valid = {US1}
    /\ bq.queries[US1] = 0
    /\ bq.queries[GB2] = 1
    /\ bq.results[GB2] # {}
    /\ bq.results[US1] # {}

-----------------------------------------------------------------------------
(* Claims about the requests sent to MusicBrainz *)

\* a request is sent to MusicBrainz in this step, and it is not the first
NextRequestSent ==
    /\ mb_limiter'.requests = mb_limiter.requests + 1
    /\ mb_limiter.requests > 0

\* C23: any two HTTP requests to MusicBrainz are at least 1.1 s apart, the
\* requests of concurrent resolutions and the retry after a 503 included, and
\* a request to MusicBrainz takes no slot of the Plex limiter.
C23_RequestsSpaced ==
    [][NextRequestSent =>
         /\ mb_limiter'.request_at - mb_limiter.request_at >= MB_TIME_PERIOD
         /\ plex_level' = plex_level]_vars

-----------------------------------------------------------------------------
(* Claims about the provider registry *)

\* the calls of sync made on the provider of the name by the sync_all at hand
SyncCallsIn(reg, name) ==
    Cardinality({i \in 1..Len(reg.called) : reg.called[i] = name})

SyncCalls(name) == SyncCallsIn(registry, name)

\* C25: sync_all invokes sync exactly once on every registered provider whose
\* is_configured is true, and never on one whose is_configured is false.
C25_SyncOnlyTheConfigured ==
    [][registry'.pc # registry.pc /\ registry'.pc \in {"gather", "done"} =>
         \A i \in 1..Len(registry'.providers) :
             SyncCallsIn(registry', registry'.providers[i]) =
                 IF is_configured(registry'.providers[i], registry'.user_inputs)
                 THEN 1 ELSE 0]_vars

\* sync_all has returned with Spotify registered and not configured, Deezer
\* registered and configured, and the sync of Deezer has run
C25_Witness ==
    /\ registry.pc = "done"
    /\ Contains(registry.providers, "spotify")
    /\ Contains(registry.providers, "deezer")
    /\ ~is_configured("spotify", registry.user_inputs)
    /\ is_configured("deezer", registry.user_inputs)
    /\ registry.ran = {"deezer"}
    /\ SyncCalls("deezer") = 1
    /\ SyncCalls("spotify") = 0

-----------------------------------------------------------------------------
(* Claims about load_cache_from_db *)

\* C26: after load_cache_from_db every MBID of table plex_mbid_index is in the
\* index in memory; an MBID that was in memory when the table is merged keeps
\* its entry, track object included, and an MBID the merge adds carries the
\* plex_id and track_key of the table and no track object.
C26_TableMergedNotOverwriting ==
    [][boot.pc = "merge" /\ boot'.pc = "done" =>
         /\ \A k \in DOMAIN plex_mbid_table : Has(plex_mbid_index', _normalize_mbid(k))
         /\ \A m \in DOMAIN plex_mbid_index :
               /\ plex_mbid_index'[m] = plex_mbid_index[m]
               /\ plex_mbid_index'[m].track # NoItem
         /\ \A k \in DOMAIN plex_mbid_table :
               ~Has(plex_mbid_index, _normalize_mbid(k)) =>
                   plex_mbid_index'[_normalize_mbid(k)] =
                       [plex_id |-> plex_mbid_table[k].plex_id,
                        track_key |-> plex_mbid_table[k].track_key,
                        track |-> NoItem]]_vars

\* the load is over with one MBID of the table found in memory under a row of
\* plex_cache, and another added from the table
C26_Witness ==
    /\ boot.pc = "done"
    /\ \E m, n \in DOMAIN plex_mbid_table :
          /\ Has(plex_mbid_index, m) /\ plex_mbid_index[m].track # NoItem
          /\ Has(plex_mbid_index, n) /\ plex_mbid_index[n].track = NoItem

-----------------------------------------------------------------------------
(* Claims about sets of ScoredMBID *)

\* the elements added so far under the MBID of e
AddedAs(e) ==
    {scored_mbids.added[i] : i \in {j \in 1..Len(scored_mbids.added) :
                                      scored_mbids.added[j].mbid = e.mbid}}

\* C24: a set of ScoredMBID holds at most one element per MBID, and the
\* element kept for an MBID added several times is the one of the highest
\* confidence among those added, whatever the order of insertion.
C24_HighestConfidenceKept ==
    \A e \in scored_mbids.set :
        /\ \A f \in scored_mbids.set : f.mbid = e.mbid => f = e
        /\ \A a \in AddedAs(e) : Confidence(e) >= Confidence(a)

-----------------------------------------------------------------------------
(* Claims about the MBID resolver and its cache *)

Age(r) == now - r.cached_at

HasValidNegative(isrc) ==
    \E r \in isrc_mbid_cache :
        /\ r.isrc = isrc /\ r.is_negative = 1
        /\ Age(r) <= MUSICBRAINZ_NEGATIVE_CACHE_TTL_DAYS

\* C4: a resolution answered 404 leaves a negative row stamped with the
\* current time, and a resolution that looks an ISRC up while it has a
\* negative row within the negative TTL returns the empty set from the cache,
\* without going on to the external call.
C4_NegativeCacheRoundTrip ==
    [][\A p \in Procs :
         /\ (res[p].pc = "save" /\ res[p].status = "404" /\ res'[p].pc = "done")
              => (/\ HasValidNegative(res[p].isrc)'
                  /\ \E r \in isrc_mbid_cache' :
                        r.isrc = res[p].isrc /\ r.is_negative = 1
                        /\ r.cached_at = now)
         /\ (res[p].pc = "lookup" /\ HasValidNegative(res[p].isrc)
                /\ res'[p] # res[p])
              => (res'[p].pc = "done" /\ res'[p].via = "cache"
                  /\ res'[p].result = {})]_vars

\* one task has stored a 404, another has then been answered from the cache
C4_Witness ==
    \E p, q \in Procs :
        /\ p # q
        /\ res[p].pc = "done" /\ res[p].via = "api" /\ res[p].status = "404"
        /\ res[q].pc = "done" /\ res[q].via = "cache" /\ res[q].result = {}
        /\ res[q].isrc = res[p].isrc
        /\ HasValidNegative(res[p].isrc)

FailedStatuses ==
    {"500", "timeout", "client_error", "503/503", "503/500", "503/timeout"}

\* C5: a lookup that ends in a timeout, a network error or a status other
\* than 200 and 404 writes nothing to isrc_mbid_cache.
C5_FailureNotCached ==
    [][\A p \in Procs :
         (res[p].pc = "save" /\ res[p].status \in FailedStatuses
             /\ res'[p].pc = "done")
           => isrc_mbid_cache' = isrc_mbid_cache]_vars

PositiveRows(isrc) == {r \in RowsOf(isrc_mbid_cache, isrc) : r.is_negative = 0}
NegativeRows(isrc) == {r \in RowsOf(isrc_mbid_cache, isrc) : r.is_negative = 1}

\* C6: the lookup applies to each row the TTL of its kind: a positive row
\* older than the negative TTL but within the positive TTL is returned as a
\* hit with its MBID, a positive row past the positive TTL is never returned,
\* and an ISRC whose rows are all past the TTL of their kind is a miss.
C6_TtlOfOwnKind ==
    \A isrc \in Isrcs :
        LET cached == get_cached_mbids(isrc)
        IN  /\ \A r \in PositiveRows(isrc) :
                 ( /\ Age(r) > MUSICBRAINZ_NEGATIVE_CACHE_TTL_DAYS
                   /\ Age(r) <= MUSICBRAINZ_CACHE_TTL_DAYS )
                    => (cached.hit /\ r.mbid \in cached.mbids)
            /\ \A r \in PositiveRows(isrc) :
                 Age(r) > MUSICBRAINZ_CACHE_TTL_DAYS => r.mbid \notin cached.mbids
            /\ ( /\ \A r \in PositiveRows(isrc) :
                        Age(r) > MUSICBRAINZ_CACHE_TTL_DAYS
                 /\ \A r \in NegativeRows(isrc) :
                        Age(r) > MUSICBRAINZ_NEGATIVE_CACHE_TTL_DAYS )
                 => ~cached.hit

\* the age of a row exceeds the TTL of its kind
Expired(r) ==
    Age(r) > (IF r.is_negative = 1 THEN MUSICBRAINZ_NEGATIVE_CACHE_TTL_DAYS
              ELSE MUSICBRAINZ_CACHE_TTL_DAYS)

\* a step of cleanup_expired_cache that deleted a row or returned another count
CleanupStep ==
    /\ UNCHANGED <<now, res, bq>>
    /\ ~UNCHANGED <<isrc_mbid_cache, deleted_count>>

\* C22: cleanup_expired_cache deletes exactly the rows older than the TTL of
\* their kind and returns how many they were; every other row stays, and
\* get_cached_mbids still answers for its ISRC, with its MBID when the row
\* is a positive one.
C22_CleanupKeepsTheUnexpired ==
    [][CleanupStep =>
          /\ isrc_mbid_cache' = {r \in isrc_mbid_cache : ~Expired(r)}
          /\ deleted_count' = Cardinality({r \in isrc_mbid_cache : Expired(r)})
          /\ \A r \in isrc_mbid_cache' :
                LET cached == get_cached_mbids_at(isrc_mbid_cache', now, r.isrc)
                IN  /\ cached.hit
                    /\ r.is_negative = 0 => r.mbid \in cached.mbids]_vars

\* C27: right after save_mbids_to_cache(isrc, S), get_cached_mbids(isrc)
\* returns the normalized S when S is not empty and the empty set, not None,
\* when it is; a save of a non-empty S leaves no negative row for the ISRC
\* and one positive row for each MBID of S.
C27_SaveThenGet ==
    [][\A p \in Procs :
          res[p].pc = "save" /\ res'[p].pc = "done" =>
              LET isrc == res[p].isrc
                  S == _normalize_mbids(res[p].mbids)
                  rows == RowsOf(isrc_mbid_cache', isrc)
              IN  /\ get_cached_mbids_at(isrc_mbid_cache', now, isrc) = CacheHit(S)
                  /\ S # {} =>
                        /\ \A r \in rows : r.is_negative = 0
                        /\ \A m \in S :
                              Cardinality({r \in rows : r.mbid = m}) = 1]_vars

\* C7: no ISRC has both a positive and a negative row.
C7_PositiveNegativeExclusive ==
    \A isrc \in Isrcs : PositiveRows(isrc) = {} \/ NegativeRows(isrc) = {}

\* C36: for every content of isrc_mbid_cache that resolutions of the same
\* ISRC can leave, the single lookup get_cached_mbids(isrc) and the batch
\* lookup get_cached_mbids_batch([isrc])[isrc] give the same answer: the same
\* set of MBIDs, the empty set, or None
C36_SingleAndBatchAgree ==
    \A isrc \in Isrcs :
        get_cached_mbids_at(isrc_mbid_cache, now, isrc)
            = get_cached_mbids_batch_at(isrc_mbid_cache, now, isrc)

\* C37: for every configured bucket width of at least 1 second, the bucket
\* pre-filter of stage 4 never excludes a candidate the tolerance test would
\* accept: a cached track of the same partial key whose duration differs from
\* the track's by at most DURATION_TOLERANCE_MS lies in one of the buckets
\* b - 1, b, b + 1 that stage 4 inspects
C37_PrefilterKeepsTheTolerated ==
    bk.track_ms # NoneInt /\ Abs(bk.candidate_ms - bk.track_ms) <= bk.DURATION_TOLERANCE_MS
        => bk.inspected

-----------------------------------------------------------------------------
(* Claims about initialize_cache *)

\* the rows a sweep with the TTLs P and N would delete
ExpiredUnder(cache, t, P, N) ==
    {r \in cache : \/ r.is_negative = 0 /\ r.cached_at < t - P
                   \/ r.is_negative = 1 /\ r.cached_at < t - N}

\* whether a lookup with the TTLs P and N would answer from the cache
HitUnder(cache, t, isrc, P, N) ==
    LET rows == RowsOf(cache, isrc)
    IN  IF \E r \in rows : r.is_negative = 1
        THEN \E r \in rows : r.is_negative = 1 /\ NotExpired(r.cached_at, t, N)
        ELSE \E r \in rows : r.is_negative = 0 /\ NotExpired(r.cached_at, t, P)

\* initialize_cache was called with two TTLs of at least a day
TtlsConfigured ==
    /\ ic.user_inputs.musicbrainz_cache_ttl_days > 0
    /\ ic.user_inputs.musicbrainz_negative_cache_ttl_days > 0

\* C31: after initialize_cache(plex, user_inputs) with
\* musicbrainz_cache_ttl_days = P and musicbrainz_negative_cache_ttl_days = N,
\* the expiry sweep of initialize_cache deletes exactly the rows older than P
\* days (positive) or N days (negative), and every later lookup of an ISRC
\* answers from the cache exactly when a row within these TTLs allows it
C31_ConfiguredTtlsUsed ==
    [][/\ (ic.pc = "load" /\ ic'.pc = "scan" /\ musicbrainz_enabled /\ TtlsConfigured
             => isrc_mbid_cache' = isrc_mbid_cache \
                   ExpiredUnder(isrc_mbid_cache, now,
                                ic.user_inputs.musicbrainz_cache_ttl_days,
                                ic.user_inputs.musicbrainz_negative_cache_ttl_days))
       /\ (ic.pc = "done" /\ TtlsConfigured
              /\ res[Matcher].pc = "lookup" /\ res'[Matcher].pc # "lookup"
             => (res'[Matcher].pc = "done")
                  = HitUnder(isrc_mbid_cache, now, res[Matcher].isrc,
                             ic.user_inputs.musicbrainz_cache_ttl_days,
                             ic.user_inputs.musicbrainz_negative_cache_ttl_days))]_vars

\* the sweep of an initialize_cache given 30 and 1 days has kept a row that
\* is a week old
C31_Witness ==
    /\ ic.pc = "scan"
    /\ musicbrainz_enabled
    /\ ic.user_inputs.musicbrainz_cache_ttl_days = 30
    /\ ic.user_inputs.musicbrainz_negative_cache_ttl_days = 1
    /\ \E r \in isrc_mbid_cache : r.is_negative = 1 /\ now - r.cached_at = 7

-----------------------------------------------------------------------------
(* Claims about the locks, the semaphores and the limiter together *)

\* what the scan can wait for: the build flag, a slot, cache_lock
ScanWaits == {"start", "fetch_rate", "merge_lock"}

\* C34: with the scan, the matches of a batch and a sync of liked tracks
\* side by side and every call returning, every match and the sync of liked
\* tracks get through all their waits and return, and the scan, which may
\* go on for ever, never stays in a wait for the build flag, a slot or
\* cache_lock
C34_EveryWaitIsGranted ==
    /\ <>(\A t \in Matches : sk.pc[t] = "done")
    /\ []<>(sk.pc[TheScan] \notin ScanWaits)

\* a match holds cache_lock and waits for a slot of the full limiter, while
\* another match waits for the semaphore, a third task for cache_lock and
\* the scan for cache_lock too
C34_Witness ==
    \E t \in Matches :
        /\ sk.cache_lock = t
        /\ sk.pc[t] = "mbid_rate"
        /\ sk.plex_rate_limiter = MaxSlots
        /\ sk.pc[TheScan] = "merge_lock"
        /\ \E u \in Matches \ {t} :
            /\ sk.pc[u] = "start"
            /\ sk.semaphore[SemaphoreOf(u)] = max_concurrent_workers
        /\ \E u \in Matches \ {t} : sk.pc[u] \in LockWaits

=============================================================================
